---- MODULE Spec2Model ----
(***************************************************************************)
(* Model of the local caching and partitioned storage layer of the         *)
(* satellite-task dashboard: CycleRuleEngine and DataStore (config.js),    *)
(* QueryCache and CacheManager (cache-manager.js).                         *)
(*                                                                         *)
(* Time.  A JavaScript Date is modelled by its wall-clock value in         *)
(* minutes since 2022-01-01 00:00 local time; a timestamp (getTime()) is   *)
(* the same instant in minutes since 2022-01-01 00:00 UTC, so that         *)
(* timestamp = wall clock - tz, where tz is the zone offset of the host.   *)
(***************************************************************************)
EXTENDS Integers, Sequences, FiniteSets, TLC

VARIABLES
    tz,          \* host time-zone offset, minutes east of UTC
    config,      \* CycleRuleEngine.config
    ceDate,      \* CycleRuleEngine: the Date handed to getGroup
    ceType,      \* CycleRuleEngine: the cycle type handed to getGroup
    ceGroup,     \* CycleRuleEngine: the group getGroup returned (or NoGroup)
    buckets,         \* DataStore.buckets: group key -> bucket
    recordToBucket,  \* DataStore.recordToBucket: record key -> group key
    dsType,          \* the cycle type the DataStore's callers pass
    dsInput,         \* the list the last loadData was given
    dsLoaded,        \* TRUE while the store is as that loadData left it
    dsCalls,         \* the number of DataStore calls made so far
    dsLast,          \* the latest DataStore or TaskResultAnalyzer call:
                     \* its arguments and what it returned
    cache,             \* QueryCache.cache: the entries in insertion order
    currentCacheSize,  \* QueryCache.currentCacheSize
    hotDataCache,      \* QueryCache.hotDataCache
    fullDataCache,     \* QueryCache.fullDataCache
    now,               \* Date.now(), in clock ticks
    qcLast,            \* the latest QueryCache call: its arguments, its
                       \* result and the evictions it made
    partitions,             \* CacheManager.partitions: the registered ids
    stores,                 \* the partition stores of the database
    diskVersion,            \* the version of the database
    db,                     \* CacheManager.db: the connection
    dbVersion,              \* CacheManager.dbVersion
    openQueue,              \* the open requests not yet settled
    leaked,                 \* open connections CacheManager.db has dropped
    createPartitionLock,    \* CacheManager.createPartitionLock
    partitionCreatedCache,  \* CacheManager.partitionCreatedCache
    calls,                  \* the frames of the CacheManager calls
    txq,                    \* the transactions not yet complete
    changed,                \* the timestamps completed writes changed
    meta,                   \* the record 'allDataMeta' of the metadata store
    cmCalls,                \* the number of CacheManager calls made so far
    isConnected,            \* WebSocketSyncManager.isConnected
    readyState,             \* WebSocketSyncManager.ws.readyState ("none": no ws)
    pendingStatsRequests,   \* WebSocketSyncManager.pendingStatsRequests: its keys
    dataRequestPromises,    \* SharedDataManager.dataRequestPromises: its keys
    promises,               \* the promises queryStats and requestData returned
    timers,                 \* the request ids whose timeout is armed
    sent,                   \* the requests the server and the other pages received
    inbox,                  \* the messages on their way to the two managers
    leaveTime,              \* localStorage 'satellitePageLeaveTime'
    catchup,                \* the frame of the catch-up synchronisation
    isReconnecting,         \* WebSocketSyncManager.isReconnecting
    reconnectTimer,         \* TRUE while the timer of reconnectTimer is pending
    wasClean                \* event.wasClean of the latest close event

ceVars == <<ceDate, ceType, ceGroup>>
dsVars == <<buckets, recordToBucket, dsType, dsInput, dsLoaded, dsCalls, dsLast>>
qcVars == <<cache, currentCacheSize, hotDataCache, fullDataCache, now, qcLast>>
cmVars == <<partitions, stores, diskVersion, db, dbVersion, openQueue, leaked,
            createPartitionLock, partitionCreatedCache, calls, txq, changed, meta,
            cmCalls>>
rcVars == <<isReconnecting, reconnectTimer, wasClean>>
netVars == <<isConnected, readyState, pendingStatsRequests, dataRequestPromises,
             promises, timers, sent, inbox, leaveTime, catchup, rcVars>>
vars == <<tz, config, ceVars, dsVars, qcVars, cmVars, netVars>>

(***************************************************************************)
(* Calendar arithmetic of the host's Date object (proleptic Gregorian,     *)
(* no daylight saving).                                                    *)
(***************************************************************************)
\* the model's epoch: 2022-01-01, a Saturday (Date.getDay() = 6)
Epoch == [year |-> 2022, weekday |-> 6]
EpochYear == Epoch.year
EpochWeekday == Epoch.weekday
\* 24 * 60 * 60 * 1000 ms, in minutes
MinutesPerDay == 1440
\* the last calendar year the Date arithmetic is defined for
LastYear == 2026
\* an invalid Date (getTime() is NaN)
InvalidDate == -(2^30)

Years == (EpochYear - 1)..LastYear

IsLeap(y) == (y % 4 = 0 /\ y % 100 # 0) \/ y % 400 = 0

DaysInYear(y) == IF IsLeap(y) THEN 366 ELSE 365

DaysInMonth(y, m0) ==
    IF m0 = 1 THEN (IF IsLeap(y) THEN 29 ELSE 28)
    ELSE IF m0 \in {3, 5, 8, 10} THEN 30 ELSE 31

RECURSIVE DaysBeforeYear(_)
DaysBeforeYear(y) ==
    IF y = EpochYear THEN 0
    ELSE IF y > EpochYear THEN DaysBeforeYear(y - 1) + DaysInYear(y - 1)
    ELSE DaysBeforeYear(y + 1) - DaysInYear(y)

RECURSIVE DaysBeforeMonth(_, _)
DaysBeforeMonth(y, m0) ==
    IF m0 = 0 THEN 0 ELSE DaysBeforeMonth(y, m0 - 1) + DaysInMonth(y, m0 - 1)

\* the day count of year yy, 0-based month mo (0..11), day d (any integer)
DayCount(yy, mo, d) == DaysBeforeYear(yy) + DaysBeforeMonth(yy, mo) + (d - 1)

\* new Date(y, m0, d, hh, mm): month 0-based; month and day overflow roll over
MkDate(y, m0, d, hh, mm) ==
    DayCount(y + (m0 \div 12), m0 % 12, d) * MinutesPerDay + hh * 60 + mm

DayNumber(date) == date \div MinutesPerDay

YearOfDay(n) ==
    CHOOSE y \in Years :
        DaysBeforeYear(y) <= n /\ n < DaysBeforeYear(y) + DaysInYear(y)

MonthOfDay(y, doy) ==
    CHOOSE m0 \in 0..11 :
        DaysBeforeMonth(y, m0) <= doy /\ doy < DaysBeforeMonth(y, m0) + DaysInMonth(y, m0)

GetFullYear(date) == YearOfDay(DayNumber(date))

\* getMonth() and getDate() of a Date whose getFullYear() is y
MonthIn(y, date) == MonthOfDay(y, DayNumber(date) - DaysBeforeYear(y))
DateIn(y, m0, date) == DayNumber(date) - DaysBeforeYear(y) - DaysBeforeMonth(y, m0) + 1

GetMonth(date) == MonthIn(GetFullYear(date), date)

DateInYear(y, date) == DateIn(y, MonthIn(y, date), date)
GetDate(date) == DateInYear(GetFullYear(date), date)

GetHours(date) == (date % MinutesPerDay) \div 60

GetMinutes(date) == date % 60

GetDay(date) == (EpochWeekday + DayNumber(date)) % 7

\* date.setHours(h, m, 0, 0)
SetHours(date, h, m) == DayNumber(date) * MinutesPerDay + h * 60 + m

\* date.setDate(d)
SetDateIn(y, date, d) == MkDate(y, MonthIn(y, date), d, GetHours(date), GetMinutes(date))
SetDate(date, d) == SetDateIn(GetFullYear(date), date, d)

\* date.setMonth(m0, d)
SetMonth(date, m0, d) ==
    MkDate(GetFullYear(date), m0, d, GetHours(date), GetMinutes(date))

\* date.getTime() and new Date(timestamp) for the host zone
GetTime(date, zone) == date - zone
DateOfTime(ts, zone) == ts + zone

(***************************************************************************)
(* CycleRuleEngine (config.js).  Each local constant of the source is the  *)
(* parameter of a local operator, applied to the expression the source     *)
(* assigns to it.                                                          *)
(***************************************************************************)
CycleTypes == {"day", "week", "month", "quarter"}

\* constructor: the default configuration; a time "HH:mm" is the pair <<HH, mm>>
DefaultConfig ==
    [day     |-> [start |-> <<0, 0>>],
     week    |-> [startDay |-> 1, startTime |-> <<0, 0>>],
     month   |-> [startDate |-> 1, startTime |-> <<0, 0>>],
     quarter |-> [startMonth |-> 1, startTime |-> <<0, 0>>]]

parseTimeToHoursMinutes(timeStr) == [hours |-> timeStr[1], minutes |-> timeStr[2]]

\* "YYYY-MM-DD"
FormatIn(y, m0, date) == <<"D", y, m0 + 1, DateIn(y, m0, date)>>
FormatInYear(y, date) == FormatIn(y, MonthIn(y, date), date)
formatDate(date) == FormatInYear(GetFullYear(date), date)

CreateInYear(y, date) ==
    MkDate(y, MonthIn(y, date), DateInYear(y, date), GetHours(date), GetMinutes(date))
createFileDate(originalDate) == CreateInYear(GetFullYear(originalDate), originalDate)

Group(key, rangeStart, rangeEnd) ==
    [ok |-> TRUE, key |-> key, rangeStart |-> rangeStart, rangeEnd |-> rangeEnd,
     error |-> "none"]

getDayGroup(cf, date) ==
    LET hm == parseTimeToHoursMinutes(cf.day.start)
        WithFileDate(fileDate) ==
            LET WithReference(referenceStart) ==
                    LET WithStart(cycleStart) ==
                            Group(formatDate(cycleStart), cycleStart,
                                  cycleStart + MinutesPerDay)
                    IN  WithStart(IF fileDate >= referenceStart
                                  THEN referenceStart
                                  ELSE referenceStart - MinutesPerDay)
            IN  WithReference(SetHours(createFileDate(fileDate), hm.hours, hm.minutes))
    IN  WithFileDate(createFileDate(date))

\* key and range of the week cycle starting at cycleStart, in year `year`
WeekOf(year, cycleStart) ==
    \* Math.ceil((pastDaysOfYear + firstDayOfYear.getDay() + 1) / 7)
    Group(<<"W", year,
            -((-((cycleStart - MkDate(year, 0, 1, 0, 0))
                  + (GetDay(MkDate(year, 0, 1, 0, 0)) + 1) * MinutesPerDay))
                \div (7 * MinutesPerDay))>>,
          cycleStart, cycleStart + 7 * MinutesPerDay)

getWeekGroup(cf, date) ==
    LET startDay == cf.week.startDay
        hm == parseTimeToHoursMinutes(cf.week.startTime)
        WithFileDate(fileDate) ==
            LET WithDiff(dayDiff) ==
                    LET WithReference(referenceStart) ==
                            LET WithStart(cycleStart) ==
                                    WeekOf(GetFullYear(cycleStart), cycleStart)
                            IN  WithStart(IF fileDate >= referenceStart
                                          THEN referenceStart
                                          ELSE referenceStart - 7 * MinutesPerDay)
                    IN  WithReference(
                            SetHours(SetDate(createFileDate(fileDate),
                                             GetDate(fileDate) - dayDiff),
                                     hm.hours, hm.minutes))
            IN  WithDiff(IF GetDay(fileDate) - startDay < 0
                         THEN GetDay(fileDate) - startDay + 7
                         ELSE GetDay(fileDate) - startDay)
    IN  WithFileDate(createFileDate(date))

\* d0 = new Date(y, m0, startDate) at hh:mm; when its day of the month is not
\* startDate: d0.setMonth(d0.getMonth() + 1, 0), again at hh:mm
AdjustAnchor(d0, startDate, hm) ==
    IF GetDate(d0) # startDate
    THEN SetHours(SetMonth(d0, GetMonth(d0) + 1, 0), hm.hours, hm.minutes)
    ELSE d0

MonthAnchor(y, m0, startDate, hm) ==
    AdjustAnchor(SetHours(MkDate(y, m0, startDate, 0, 0), hm.hours, hm.minutes),
                 startDate, hm)

\* cycleEnd, from the year and 0-based month of cycleStart
MonthEnd(startYear, startMonth0, startDate, hm) ==
    MonthAnchor(startYear + (IF startMonth0 + 1 > 11 THEN 1 ELSE 0),
                IF startMonth0 + 1 > 11 THEN 0 ELSE startMonth0 + 1,
                startDate, hm)

MonthOf(startYear, cycleStart, startDate, hm) ==
    Group(<<"M", startYear, MonthIn(startYear, cycleStart) + 1>>,
          cycleStart,
          MonthEnd(startYear, MonthIn(startYear, cycleStart), startDate, hm))

getMonthGroup(cf, date) ==
    LET startDate == cf.month.startDate
        hm == parseTimeToHoursMinutes(cf.month.startTime)
        WithFileDate(fileDate) ==
            LET WithCurrent(currentYear, currentMonth) ==
                    LET WithReference(referenceStart) ==
                            LET WithStart(cycleStart) ==
                                    MonthOf(GetFullYear(cycleStart), cycleStart,
                                            startDate, hm)
                            IN  WithStart(
                                    IF fileDate >= referenceStart
                                    THEN referenceStart
                                    ELSE MonthAnchor(
                                            IF currentMonth = 0 THEN currentYear - 1
                                            ELSE currentYear,
                                            IF currentMonth = 0 THEN 11
                                            ELSE currentMonth - 1,
                                            startDate, hm))
                    IN  WithReference(
                            MonthAnchor(currentYear, currentMonth, startDate, hm))
            IN  WithCurrent(GetFullYear(fileDate), GetMonth(fileDate))
    IN  WithFileDate(createFileDate(date))

\* the start month of "the current quarter", as the chained conditionals pick it
CurrentQuarterStart(startMonth, currentMonth) ==
    IF startMonth = 1
    THEN (IF currentMonth <= 3 THEN 1 ELSE IF currentMonth <= 6 THEN 4
          ELSE IF currentMonth <= 9 THEN 7 ELSE 10)
    ELSE IF startMonth = 4
    THEN (IF currentMonth <= 6 THEN 4 ELSE IF currentMonth <= 9 THEN 7
          ELSE IF currentMonth <= 12 THEN 10 ELSE 1)
    ELSE IF startMonth = 7
    THEN (IF currentMonth <= 9 THEN 7 ELSE IF currentMonth <= 12 THEN 10
          ELSE IF currentMonth <= 3 THEN 1 ELSE 4)
    ELSE (IF currentMonth <= 12 THEN 10 ELSE IF currentMonth <= 3 THEN 1
          ELSE IF currentMonth <= 6 THEN 4 ELSE 7)

\* key and range of the quarter cycle starting at cycleStart, in year startYear
QuarterOf(startYear, cycleStart, currentQuarterStart, hm) ==
    Group(<<"Q", startYear, ((currentQuarterStart - 1) \div 3) + 1>>,
          cycleStart,
          SetHours(MkDate(startYear + (IF currentQuarterStart + 3 > 12 THEN 1 ELSE 0),
                          (IF currentQuarterStart + 3 > 12
                           THEN currentQuarterStart + 3 - 12
                           ELSE currentQuarterStart + 3) - 1,
                          1, 0, 0),
                   hm.hours, hm.minutes))

getQuarterGroup(cf, date) ==
    LET startMonth == cf.quarter.startMonth
        hm == parseTimeToHoursMinutes(cf.quarter.startTime)
        WithFileDate(fileDate) ==
            LET WithCurrent(currentYear, currentMonth) ==
                    LET WithQuarter(currentQuarterStart) ==
                            LET WithReference(referenceStart) ==
                                    LET WithStart(cycleStart) ==
                                            QuarterOf(GetFullYear(cycleStart), cycleStart,
                                                      currentQuarterStart, hm)
                                    \* "about three months earlier": 3 * 30 days
                                    IN  WithStart(
                                            IF fileDate >= referenceStart
                                            THEN referenceStart
                                            ELSE referenceStart - 3 * 30 * MinutesPerDay)
                            IN  WithReference(
                                    SetHours(MkDate(IF currentQuarterStart <= currentMonth
                                                    THEN currentYear
                                                    ELSE currentYear - 1,
                                                    currentQuarterStart - 1, 1, 0, 0),
                                             hm.hours, hm.minutes))
                    IN  WithQuarter(CurrentQuarterStart(startMonth, currentMonth))
            IN  WithCurrent(GetFullYear(fileDate), GetMonth(fileDate) + 1)
    IN  WithFileDate(createFileDate(date))

\* the outcome of a getGroup call that threw new Error('invalid date'); error
\* is the name of the thrown object's constructor
Thrown == [ok |-> FALSE, key |-> <<"E">>, rangeStart |-> InvalidDate,
           rangeEnd |-> InvalidDate, error |-> "Error"]

getGroup(cf, date, groupType) ==
    IF date = InvalidDate THEN Thrown
    ELSE IF groupType = "day" THEN getDayGroup(cf, date)
    ELSE IF groupType = "week" THEN getWeekGroup(cf, date)
    ELSE IF groupType = "month" THEN getMonthGroup(cf, date)
    ELSE IF groupType = "quarter" THEN getQuarterGroup(cf, date)
    ELSE getDayGroup(cf, date)

(***************************************************************************)
(* DataStore (config.js): buckets and the reverse map recordToBucket.      *)
(* A record is [id, plan_id, start_time, task_result]; id may be Null.     *)
(* A start_time value carries its JavaScript type: a string holds the      *)
(* wall-clock literal (InvalidDate when new Date(string) is invalid), a    *)
(* number holds a spreadsheet serial day, a Date holds its wall clock.     *)
(***************************************************************************)
Null == "null"
\* no bucket key (undefined / null)
NoKey == <<"null">>

\* Map helpers
EmptyMap == [k \in {} |-> 0]
MapSet(f, k, v) == [x \in (DOMAIN f) \cup {k} |-> IF x = k THEN v ELSE f[x]]
MapDelete(f, k) == [x \in (DOMAIN f) \ {k} |-> f[x]]

\* 25569, the serial of 1970-01-01, moved to the model's epoch 2022-01-01
ExcelSerialOfEpoch == 44562

getRecordKey(record) ==
    IF record.id = Null
    THEN <<"k", record.plan_id, record.start_time>>
    ELSE <<"id", record.id>>

\* the timestamp addRecordsToBucketBatch parses; skip for a value that is
\* neither Date, number nor string; InvalidDate stands for NaN
BatchTimestamp(timeValue, zone) ==
    IF timeValue.t = "Date"
    THEN [skip |-> FALSE, timestamp |-> GetTime(timeValue.v, zone)]
    ELSE IF timeValue.t = "number"
    THEN [skip |-> FALSE,
          timestamp |-> (timeValue.v - ExcelSerialOfEpoch) * MinutesPerDay]
    ELSE IF timeValue.t = "string"
    THEN [skip |-> FALSE,
          timestamp |-> IF timeValue.v = InvalidDate THEN InvalidDate
                        ELSE GetTime(timeValue.v, zone)]
    ELSE [skip |-> TRUE, timestamp |-> InvalidDate]

\* groupInfoCache.get(cacheKey), or getGroup for the record's own Date
CachedGroup(groupInfoCache, cacheKey, timestamp, cf, groupType, zone) ==
    IF cacheKey \in DOMAIN groupInfoCache
    THEN groupInfoCache[cacheKey]
    ELSE getGroup(cf, createFileDate(DateOfTime(timestamp, zone)), groupType)

\* groupedData after pushing the record to its group
PushGrouped(groupedData, groupInfo, record, recordKey) ==
    MapSet(groupedData, groupInfo.key,
           IF groupInfo.key \in DOMAIN groupedData
           THEN [groupedData[groupInfo.key] EXCEPT
                    !.records = Append(@, record),
                    !.recordKeys = @ \cup {recordKey}]
           ELSE [rangeStart |-> groupInfo.rangeStart,
                 rangeEnd |-> groupInfo.rangeEnd,
                 records |-> <<record>>, recordKeys |-> {recordKey}])

\* one pass of the loop body for a record that is neither a duplicate nor
\* unparseable; acc holds recordToBucket (globalExistingKeys), groupedData
\* and groupInfoCache
BatchStep_KeyNotRecorded(acc, record, recordKey, cacheKey, groupInfo) ==
    [recordToBucket |-> acc.recordToBucket,
     groupedData |-> PushGrouped(acc.groupedData, groupInfo, record, recordKey),
     groupInfoCache |-> MapSet(acc.groupInfoCache, cacheKey, groupInfo)]

BatchStep(acc, record, recordKey, cacheKey, groupInfo) ==
    [recordToBucket |-> MapSet(acc.recordToBucket, recordKey, groupInfo.key),
     groupedData |-> PushGrouped(acc.groupedData, groupInfo, record, recordKey),
     groupInfoCache |-> MapSet(acc.groupInfoCache, cacheKey, groupInfo)]

BatchRecord(acc, record, timestamp, groupType, cf, zone) ==
    BatchStep(acc, record, getRecordKey(record),
              <<timestamp \div MinutesPerDay, groupType>>,
              CachedGroup(acc.groupInfoCache,
                          <<timestamp \div MinutesPerDay, groupType>>,
                          timestamp, cf, groupType, zone))

\* the loop of addRecordsToBucketBatch from record i on
RECURSIVE BatchLoop(_, _, _, _, _, _)
BatchLoop(records, i, acc, cf, groupType, zone) ==
    IF i > Len(records) THEN acc
    ELSE IF getRecordKey(records[i]) \in DOMAIN acc.recordToBucket
    THEN BatchLoop(records, i + 1, acc, cf, groupType, zone)
    ELSE IF \/ BatchTimestamp(records[i].start_time, zone).skip
            \/ BatchTimestamp(records[i].start_time, zone).timestamp = InvalidDate
    THEN BatchLoop(records, i + 1, acc, cf, groupType, zone)
    ELSE BatchLoop(records, i + 1,
                   BatchRecord(acc, records[i],
                               BatchTimestamp(records[i].start_time, zone).timestamp,
                               groupType, cf, zone),
                   cf, groupType, zone)

\* a DataStore is [buckets, recordToBucket]
EmptyStore == [buckets |-> EmptyMap, recordToBucket |-> EmptyMap]

\* the second loop: create the missing buckets, push the grouped records
BatchCommit(ds, acc) ==
    [buckets |->
        [k \in (DOMAIN ds.buckets) \cup (DOMAIN acc.groupedData) |->
            IF k \notin DOMAIN acc.groupedData THEN ds.buckets[k]
            ELSE IF k \in DOMAIN ds.buckets
            THEN [ds.buckets[k] EXCEPT !.records = @ \o acc.groupedData[k].records]
            ELSE [key |-> k, records |-> acc.groupedData[k].records,
                  rangeStart |-> acc.groupedData[k].rangeStart,
                  rangeEnd |-> acc.groupedData[k].rangeEnd]],
     recordToBucket |-> acc.recordToBucket]

addRecordsToBucketBatch(ds, records, cf, groupType, zone) ==
    IF Len(records) = 0 THEN ds
    ELSE BatchCommit(ds,
            BatchLoop(records, 1,
                      [recordToBucket |-> ds.recordToBucket,
                       groupedData |-> EmptyMap, groupInfoCache |-> EmptyMap],
                      cf, groupType, zone))

\* clear() followed by the batch load
loadData(data, cf, groupType, zone) ==
    addRecordsToBucketBatch(EmptyStore, data, cf, groupType, zone)

\* the Date addRecordToBucket parses; skip for a value that is neither Date,
\* string nor number
SingleDate(timeValue, zone) ==
    IF timeValue.t = "Date" THEN [skip |-> FALSE, date |-> createFileDate(timeValue.v)]
    ELSE IF timeValue.t = "string" THEN [skip |-> FALSE, date |-> timeValue.v]
    ELSE IF timeValue.t = "number"
    THEN [skip |-> FALSE,
          date |-> DateOfTime((timeValue.v - ExcelSerialOfEpoch) * MinutesPerDay, zone)]
    ELSE [skip |-> TRUE, date |-> InvalidDate]

\* bucket.records.findIndex(r => getRecordKey(r) === recordKey), 0 for -1
FindIndex(recs, recordKey) ==
    IF \E i \in 1..Len(recs) : getRecordKey(recs[i]) = recordKey
    THEN CHOOSE i \in 1..Len(recs) :
            /\ getRecordKey(recs[i]) = recordKey
            /\ \A j \in 1..(i - 1) : getRecordKey(recs[j]) # recordKey
    ELSE 0

\* records.splice(i, 1)
Splice(recs, i) == SubSeq(recs, 1, i - 1) \o SubSeq(recs, i + 1, Len(recs))

\* replace the record at existingIndex, or push when it is 0 (not found)
PutRecord(recs, existingIndex, record) ==
    IF existingIndex >= 1 THEN [recs EXCEPT ![existingIndex] = record]
    ELSE Append(recs, record)

\* the bucket of groupInfo, created when missing, with the record put in
BucketWith(bs, groupInfo, record) ==
    IF groupInfo.key \in DOMAIN bs
    THEN [bs[groupInfo.key] EXCEPT
            !.records = PutRecord(@, FindIndex(@, getRecordKey(record)), record)]
    ELSE [key |-> groupInfo.key, records |-> <<record>>,
          rangeStart |-> groupInfo.rangeStart, rangeEnd |-> groupInfo.rangeEnd]

AddToGroup(ds, record, groupInfo) ==
    [ds |-> [buckets |-> MapSet(ds.buckets, groupInfo.key,
                                BucketWith(ds.buckets, groupInfo, record)),
             recordToBucket |-> MapSet(ds.recordToBucket, getRecordKey(record),
                                       groupInfo.key)],
     ret |-> groupInfo.key]

\* returns [ds, ret]: ret is the bucket key, or NoKey for null
addRecordToBucket(ds, record, cf, groupType, zone) ==
    IF \/ SingleDate(record.start_time, zone).skip
       \/ SingleDate(record.start_time, zone).date = InvalidDate
    THEN [ds |-> ds, ret |-> NoKey]
    ELSE AddToGroup(ds, record,
                    getGroup(cf, SingleDate(record.start_time, zone).date, groupType))

\* recordToBucket.get(recordKey), NoKey for undefined
OldGroupKey(ds, recordKey) ==
    IF recordKey \in DOMAIN ds.recordToBucket THEN ds.recordToBucket[recordKey]
    ELSE NoKey

\* the index of the record in its old bucket, 0 when there is none
OldIndex(ds, recordKey, oldGroupKey) ==
    IF oldGroupKey # NoKey /\ oldGroupKey \in DOMAIN ds.buckets
    THEN FindIndex(ds.buckets[oldGroupKey].records, recordKey)
    ELSE 0

\* the store after the removal from the old bucket
RemoveOld(ds, recordKey, oldGroupKey, oldIndex) ==
    [buckets |-> IF oldIndex >= 1
                 THEN [ds.buckets EXCEPT ![oldGroupKey].records = Splice(@, oldIndex)]
                 ELSE ds.buckets,
     recordToBucket |-> IF oldGroupKey # NoKey
                        THEN MapDelete(ds.recordToBucket, recordKey)
                        ELSE ds.recordToBucket]

\* the result of updateRecord from the result of its addRecordToBucket call,
\* pushing the new bucket also when it is the old one
AfterAdd_AlwaysPushed(added, oldGroupKey, affected) ==
    [ds |-> added.ds,
     ret |-> IF added.ret # NoKey
             THEN Append(affected, added.ret) ELSE affected]

\* the result of updateRecord from the result of its addRecordToBucket call
AfterAdd(added, oldGroupKey, affected) ==
    [ds |-> added.ds,
     ret |-> IF added.ret # NoKey /\ added.ret # oldGroupKey
             THEN Append(affected, added.ret) ELSE affected]

UpdateFrom(ds, record, cf, groupType, zone, isDelete, oldGroupKey, oldIndex) ==
    IF isDelete
    THEN [ds |-> RemoveOld(ds, getRecordKey(record), oldGroupKey, oldIndex),
          ret |-> IF oldIndex >= 1 THEN <<oldGroupKey>> ELSE <<>>]
    ELSE AfterAdd(addRecordToBucket(
                      RemoveOld(ds, getRecordKey(record), oldGroupKey, oldIndex),
                      record, cf, groupType, zone),
                  oldGroupKey,
                  IF oldIndex >= 1 THEN <<oldGroupKey>> ELSE <<>>)

UpdateWithOld(ds, record, cf, groupType, zone, isDelete, oldGroupKey) ==
    UpdateFrom(ds, record, cf, groupType, zone, isDelete, oldGroupKey,
               OldIndex(ds, getRecordKey(record), oldGroupKey))

\* returns [ds, ret]: ret is the sequence affectedBuckets
updateRecord(ds, record, cf, groupType, zone, isDelete) ==
    UpdateWithOld(ds, record, cf, groupType, zone, isDelete,
                  OldGroupKey(ds, getRecordKey(record)))

\* records.forEach(record => updateRecord(record, ..., false))
RECURSIVE mergeIncrementalData(_, _, _, _, _)
mergeIncrementalData(ds, records, cf, groupType, zone) ==
    IF Len(records) = 0 THEN ds
    ELSE mergeIncrementalData(
            updateRecord(ds, Head(records), cf, groupType, zone, FALSE).ds,
            Tail(records), cf, groupType, zone)

(***************************************************************************)
(* QueryCache (cache-manager.js).  A QueryCache is the record              *)
(* [cache, currentCacheSize, hotDataCache, fullDataCache]; cache is the    *)
(* Map as the sequence of its entries in insertion order, each entry       *)
(* [key, data, timestamp, size, accessCount].  Sizes are counted in units  *)
(* of RecordJsonLength characters per record, times in clock ticks.        *)
(***************************************************************************)
\* 100 * 1024 * 1024 characters, scaled to the model's size unit
maxCacheSize == 10
\* 5 * 60 * 1000 ms, scaled to the model's clock tick
cacheTTL == 2
\* the characters one record (and its separator) adds to JSON.stringify(data)
RecordJsonLength == 3

\* JSON.stringify(data).length for an array of records: "[]" is 2 long
JsonLength(data) ==
    IF Len(data) = 0 THEN 2 ELSE 1 + Len(data) * RecordJsonLength

NoHotData == [set |-> FALSE, data |-> <<>>, startDate |-> 0, endDate |-> 0, timestamp |-> 0]
NoFullData == [set |-> FALSE, data |-> <<>>, timestamp |-> 0]

NewQueryCache ==
    [cache |-> <<>>, currentCacheSize |-> 0,
     hotDataCache |-> NoHotData, fullDataCache |-> NoFullData]

\* start and end are the getTime() values, options is <<limit, offset, orderBy>>
getCacheKey(start, end, options) == <<"query", start, end, options>>

\* the position of the key in the Map, 0 when it is not there
CacheIndex(entries, key) ==
    IF \E i \in 1..Len(entries) : entries[i].key = key
    THEN CHOOSE i \in 1..Len(entries) : entries[i].key = key
    ELSE 0

\* get() once the entry is found at position i: expired, or a hit
GetAt(qc, i, t) ==
    IF t - qc.cache[i].timestamp > cacheTTL
    THEN [qc |-> [qc EXCEPT !.cache = Splice(@, i),
                            !.currentCacheSize = @ - qc.cache[i].size],
          hit |-> FALSE, data |-> <<>>]
    ELSE [qc |-> [qc EXCEPT !.cache[i].accessCount = @ + 1,
                            !.cache[i].timestamp = t],
          hit |-> TRUE, data |-> qc.cache[i].data]

\* returns [qc, hit, data]: hit FALSE stands for the null result
get(qc, key, t) ==
    IF CacheIndex(qc.cache, key) = 0
    THEN [qc |-> qc, hit |-> FALSE, data |-> <<>>]
    ELSE GetAt(qc, CacheIndex(qc.cache, key), t)

\* the first entry, in Map order, with the smallest timestamp
OldestIndex(entries) ==
    CHOOSE i \in 1..Len(entries) :
        /\ \A j \in 1..Len(entries) : entries[i].timestamp <= entries[j].timestamp
        /\ \A j \in 1..(i - 1) : entries[j].timestamp > entries[i].timestamp

EvictAt(qc, i) ==
    [qc EXCEPT !.cache = Splice(@, i),
               !.currentCacheSize = @ - qc.cache[i].size]

evictOldest(qc) ==
    IF Len(qc.cache) = 0 THEN qc ELSE EvictAt(qc, OldestIndex(qc.cache))

\* while (currentCacheSize + dataSize > maxCacheSize && cache.size > 0)
RECURSIVE EvictLoop(_, _)
EvictLoop(qc, dataSize) ==
    IF qc.currentCacheSize + dataSize > maxCacheSize /\ Len(qc.cache) > 0
    THEN EvictLoop(evictOldest(qc), dataSize)
    ELSE qc

\* cache.set(key, entry): an existing key keeps its place in the Map
PutEntry(entries, i, entry) ==
    IF i >= 1 THEN [entries EXCEPT ![i] = entry] ELSE Append(entries, entry)

Insert(qc, key, data, dataSize, t) ==
    [qc EXCEPT
        !.cache = PutEntry(@, CacheIndex(@, key),
                           [key |-> key, data |-> data, timestamp |-> t,
                            size |-> dataSize, accessCount |-> 0]),
        !.currentCacheSize = @ + dataSize]

set(qc, key, data, t) ==
    IF JsonLength(data) > maxCacheSize THEN qc
    ELSE Insert(EvictLoop(qc, JsonLength(data)), key, data, JsonLength(data), t)

clear(qc) == NewQueryCache

invalidate(qc) == clear(qc)

\* the assignment of preloadHotData, with the result of its query
setHotData(qc, hotData, startDate, endDate, t) ==
    [qc EXCEPT !.hotDataCache =
        [set |-> TRUE, data |-> hotData, startDate |-> startDate,
         endDate |-> endDate, timestamp |-> t]]

setFullDataCache(qc, data, t) ==
    [qc EXCEPT !.fullDataCache = [set |-> TRUE, data |-> data, timestamp |-> t]]

\* returns [qc, hit, data]: hit FALSE stands for the null result
getFullDataCache(qc, t) ==
    IF ~qc.fullDataCache.set
    THEN [qc |-> qc, hit |-> FALSE, data |-> <<>>]
    ELSE IF t - qc.fullDataCache.timestamp > cacheTTL
    THEN [qc |-> [qc EXCEPT !.fullDataCache = NoFullData], hit |-> FALSE, data |-> <<>>]
    ELSE [qc |-> qc, hit |-> TRUE, data |-> qc.fullDataCache.data]

(***************************************************************************)
(* CacheManager (cache-manager.js).  A record is [id, start_time,          *)
(* timestamp]: start_time is the wall clock of a "YYYY-MM-DD HH:mm:ss"     *)
(* string, timestamp is InvalidDate when the field is missing.  A          *)
(* partition id "YYYY_Qn" is <<year, quarter>>.  The state of a            *)
(* CacheManager, its database and its calls in flight is the record        *)
(*   partitions   this.partitions: the registered ids, in insertion order  *)
(*   stores       the object stores of the database: id -> key -> record   *)
(*   diskVersion  the version of the database                              *)
(*   db           this.db: [version, names, closed] of the connection      *)
(*   dbVersion    this.dbVersion                                           *)
(*   openQueue    the open requests not yet settled, oldest first          *)
(*   leaked       open connections this.db no longer refers to             *)
(*   createPartitionLock, partitionCreatedCache                            *)
(*   queryCache   this.queryCache                                          *)
(*   calls        slot -> the frame of the async call running there        *)
(*   txq          the transactions not yet complete, oldest first          *)
(*   changed      the timestamps of the records completed writes changed   *)
(*   meta         the record 'allDataMeta' of the metadata store, NoMeta when *)
(*                the store has none                                          *)
(***************************************************************************)
\* !timestamp is false
Truthy(timestamp) == timestamp # InvalidDate

\* `${year}_Q${Math.ceil(month / 3)}` of a Date
PartitionIdOf(date) == <<GetFullYear(date), (GetMonth(date) \div 3) + 1>>

\* the partition of new Date(timestamp)
PartitionOfTimestamp(timestamp, zone) == PartitionIdOf(DateOfTime(timestamp, zone))

\* parseTimeToTimestamp of a string: local time, 0 (falsy) when invalid
parseTimeToTimestamp(timeValue, zone) ==
    IF timeValue = InvalidDate THEN InvalidDate ELSE GetTime(timeValue, zone)

\* record.timestamp = new Date(record.start_time).getTime() when it is missing
StampRecord(record, zone) ==
    IF ~Truthy(record.timestamp) /\ record.start_time # InvalidDate
    THEN [record EXCEPT !.timestamp = GetTime(record.start_time, zone)]
    ELSE record

\* the timestamp groupRecordsByPartition routes the record by
GroupTimestamp(record, zone) ==
    IF Truthy(record.timestamp) THEN record.timestamp
    ELSE parseTimeToTimestamp(record.start_time, zone)

\* groups[partitionId].push(record); groups is the sequence of [id, records]
\* in the order the keys were inserted
PushToGroup(groups, partitionId, record) ==
    IF \E i \in 1..Len(groups) : groups[i].id = partitionId
    THEN [i \in 1..Len(groups) |->
            IF groups[i].id = partitionId
            THEN [groups[i] EXCEPT !.records = Append(@, record)]
            ELSE groups[i]]
    ELSE Append(groups, [id |-> partitionId, records |-> <<record>>])

RECURSIVE GroupLoop(_, _, _)
GroupLoop(records, groups, zone) ==
    IF Len(records) = 0 THEN groups
    ELSE IF ~Truthy(GroupTimestamp(Head(records), zone))
    THEN GroupLoop(Tail(records), groups, zone)
    ELSE GroupLoop(Tail(records),
                   PushToGroup(groups,
                               PartitionOfTimestamp(GroupTimestamp(Head(records), zone), zone),
                               Head(records)),
                   zone)

groupRecordsByPartition(records, zone) == GroupLoop(records, <<>>, zone)

\* store.put(record) for each record in turn
RECURSIVE PutAll(_, _)
PutAll(store, records) ==
    IF Len(records) = 0 THEN store
    ELSE PutAll(MapSet(store, Head(records).id, Head(records)), Tail(records))

\* the record ids of the model, in the order IndexedDB compares keys
Keys == <<"1", "2", "5", "6">>
KeyRank(id) == CHOOSE i \in 1..Len(Keys) : Keys[i] = id

\* the order of the 'timestamp' index: by timestamp, then by primary key
IndexBefore(r1, r2) ==
    \/ r1.timestamp < r2.timestamp
    \/ r1.timestamp = r2.timestamp /\ KeyRank(r1.id) <= KeyRank(r2.id)

FirstInIndex(rs) == CHOOSE r \in rs : \A x \in rs : IndexBefore(r, x)

RECURSIVE InIndexOrder(_)
InIndexOrder(rs) ==
    IF rs = {} THEN <<>>
    ELSE <<FirstInIndex(rs)>> \o InIndexOrder(rs \ {FirstInIndex(rs)})

Reverse(seq) == [i \in 1..Len(seq) |-> seq[Len(seq) + 1 - i]]

\* the cursor over IDBKeyRange.bound(start, end) of the 'timestamp' index;
\* a record without a valid timestamp is not in the index
IndexScan(store, startTimestamp, endTimestamp, orderBy) ==
    IF orderBy = "desc"
    THEN Reverse(InIndexOrder({store[k] : k \in {x \in DOMAIN store :
            /\ Truthy(store[x].timestamp)
            /\ startTimestamp <= store[x].timestamp
            /\ store[x].timestamp <= endTimestamp}}))
    ELSE InIndexOrder({store[k] : k \in {x \in DOMAIN store :
            /\ Truthy(store[x].timestamp)
            /\ startTimestamp <= store[x].timestamp
            /\ store[x].timestamp <= endTimestamp}})

\* Array.prototype.sort (stable) with the comparator of the requested order
InsertByTime(sorted, r, orderBy) ==
    IF orderBy = "desc"
    THEN SelectSeq(sorted, LAMBDA x : x.timestamp >= r.timestamp) \o <<r>>
         \o SelectSeq(sorted, LAMBDA x : x.timestamp < r.timestamp)
    ELSE SelectSeq(sorted, LAMBDA x : x.timestamp <= r.timestamp) \o <<r>>
         \o SelectSeq(sorted, LAMBDA x : x.timestamp > r.timestamp)

RECURSIVE SortByTime(_, _, _)
SortByTime(data, sorted, orderBy) ==
    IF Len(data) = 0 THEN sorted
    ELSE SortByTime(Tail(data), InsertByTime(sorted, Head(data), orderBy), orderBy)

\* limit 0 stands for null
applyPagination(data, limit, offset) ==
    IF limit = 0 THEN data
    ELSE SubSeq(data, offset + 1,
                IF offset + limit < Len(data) THEN offset + limit ELSE Len(data))

\* the loop of getPartitionsInRange from the Date current on
RECURSIVE RangeLoop(_, _, _, _)
RangeLoop(registered, current, endDate, found) ==
    IF current > endDate THEN found
    ELSE RangeLoop(registered,
                   SetMonth(current, GetMonth(current) + 3, GetDate(current)),
                   endDate,
                   IF /\ \A i \in 1..Len(found) : found[i] # PartitionIdOf(current)
                      /\ \E i \in 1..Len(registered) : registered[i] = PartitionIdOf(current)
                   THEN Append(found, PartitionIdOf(current))
                   ELSE found)

getPartitionsInRange(registered, startDate, endDate) ==
    RangeLoop(registered, startDate, endDate, <<>>)

\* canUseHotData: the query range lies within the hot window
canUseHotData(qc, queryStart, queryEnd) ==
    /\ qc.hotDataCache.set
    /\ queryStart >= qc.hotDataCache.startDate
    /\ queryEnd <= qc.hotDataCache.endDate

\* filterFromHotData once canUseHotData holds
filterFromHotData(qc, start, end) ==
    SelectSeq(qc.hotDataCache.data,
              LAMBDA record : record.timestamp >= start /\ record.timestamp <= end)

\* the options of queryDateRangeOptimized with their defaults
DefaultOptions ==
    [useCache |-> TRUE, limit |-> 0, offset |-> 0, orderBy |-> "asc", maxParallel |-> 4]

\* what a call returned: nothing yet, a value, or a rejected promise
NoRet == [kind |-> "none", ok |-> FALSE, n |-> 0, data |-> <<>>]
Returned(ok, n, data) == [kind |-> "returned", ok |-> ok, n |-> n, data |-> data]
Rejected == [kind |-> "rejected", ok |-> FALSE, n |-> 0, data |-> <<>>]

\* The frame of an async call: its arguments and locals, and pc, the await
\* it is suspended at.  quiet, covers and expect are history of a query:
\* no write call overlapped it, a completed write had changed a record of
\* its window when it began, and what the stores held when it returned.
\* written and lost are history of a write: the records of its input the
\* call has put in a store, and those it has given up putting; ready is
\* history of an updateRecord: its target partition was registered and its
\* store created when the call looked; began is the time the call was made,
\* total is sortedData.length, and input the argument, of storeAllData;
\* opens is history too: the open requests the call has made.
IdleFrame ==
    [op |-> "idle", pc |-> "idle", recs |-> <<>>, id |-> Null,
     todo |-> <<>>, batch |-> <<>>, pend |-> {}, got |-> EmptyMap, acc |-> <<>>,
     count |-> 0, window |-> <<0, 0>>, opts |-> DefaultOptions,
     quiet |-> TRUE, covers |-> FALSE, expect |-> <<>>,
     written |-> 0, lost |-> 0, ready |-> FALSE, began |-> 0, total |-> 0,
     input |-> <<>>, opens |-> 0, ret |-> NoRet]

InFlight(frame) == frame.pc \notin {"idle", "done"}

WriteOps ==
    {"updateRecord", "batchUpdateRecords", "deleteRecord", "appendData",
     "writeToPartitionTables", "storeAllData", "clearAllData", "clearAllDataCache"}

WriteInFlight(st) ==
    \E s \in DOMAIN st.calls : InFlight(st.calls[s]) /\ st.calls[s].op \in WriteOps

\* a write call begins: the queries in flight are no longer undisturbed
Disturb(st) ==
    [st EXCEPT !.calls =
        [s \in DOMAIN @ |->
            IF InFlight(@[s]) /\ @[s].op = "queryDateRangeOptimized"
            THEN [@[s] EXCEPT !.quiet = FALSE]
            ELSE @[s]]]

Begin(st, s, frame) == [st EXCEPT !.calls[s] = [frame EXCEPT !.began = st.now]]

\* the call in slot s returns: its locals are dropped
Finish(st, s, ret) ==
    [st EXCEPT !.calls[s] =
        [IdleFrame EXCEPT !.op = st.calls[s].op, !.pc = "done",
                          !.window = st.calls[s].window, !.opts = st.calls[s].opts,
                          !.quiet = st.calls[s].quiet, !.covers = st.calls[s].covers,
                          !.expect = st.calls[s].expect,
                          !.written = st.calls[s].written,
                          !.lost = st.calls[s].lost,
                          !.ready = st.calls[s].ready,
                          !.began = st.calls[s].began,
                          !.opens = st.calls[s].opens, !.ret = ret]]

\* this.db.transaction(scope, mode) on an open connection
StartTx(st, s, scope, mode) ==
    [st EXCEPT !.txq = Append(@, [slot |-> s, scope |-> scope, mode |-> mode])]

\* a transaction runs once every earlier one whose scope overlaps is
\* complete, unless both only read
Runnable(queue, i) ==
    \A j \in 1..(i - 1) :
        \/ queue[j].scope \cap queue[i].scope = {}
        \/ queue[j].mode = "readonly" /\ queue[i].mode = "readonly"

RemoveTx(st, i) ==
    [st EXCEPT !.txq = SubSeq(@, 1, i - 1) \o SubSeq(@, i + 1, Len(@))]

TheStoreOf(tx) == CHOOSE p \in tx.scope : TRUE

\* this.partitions[partitionId] is defined
Registered(st, partitionId) ==
    \E i \in 1..Len(st.partitions) : st.partitions[i] = partitionId

\* this.db.objectStoreNames.contains(storeName)
Contains(st, partitionId) == partitionId \in st.db.names

Invalidate(st) == [st EXCEPT !.queryCache = invalidate(@)]

Changed(st, records) ==
    [st EXCEPT !.changed = @ \cup {records[i].timestamp : i \in 1..Len(records)}]

(***************************************************************************)
(* CacheManager.updateRecord                                               *)
(***************************************************************************)
\* from the partition lookup to the promise of the put
UpdateAt(st, s, record, partitionId) ==
    IF ~Registered(st, partitionId) \/ ~Contains(st, partitionId)
    THEN Finish([st EXCEPT !.calls[s].lost = 1], s, Returned(FALSE, 0, <<>>))
    ELSE IF st.db.closed
    THEN Finish([st EXCEPT !.calls[s].lost = 1, !.calls[s].ready = TRUE], s, Rejected)
    ELSE StartTx([st EXCEPT !.calls[s].pc = "put",
                            !.calls[s].ready = TRUE,
                            !.calls[s].recs = <<record>>,
                            !.calls[s].todo = <<partitionId>>],
                 s, {partitionId}, "readwrite")

UpdateStamped(st, s, record, zone) ==
    IF ~Truthy(record.timestamp)
    THEN Finish([st EXCEPT !.calls[s].lost = 1], s, Returned(FALSE, 0, <<>>))
    ELSE UpdateAt(st, s, record, PartitionOfTimestamp(record.timestamp, zone))

cmUpdateRecord(st, s, record, zone) ==
    UpdateStamped(Begin(Disturb(st), s, [IdleFrame EXCEPT !.op = "updateRecord"]),
                  s, StampRecord(record, zone), zone)

\* putRequest.onsuccess of the transaction txq[i]
UpdatePut(st, i, s) ==
    Finish(Invalidate(Changed(
               [RemoveTx(st, i) EXCEPT
                   !.stores[st.calls[s].todo[1]] =
                       MapSet(@, st.calls[s].recs[1].id, st.calls[s].recs[1]),
                   !.calls[s].written = 1],
               st.calls[s].recs)),
           s, Returned(TRUE, 0, <<>>))

(***************************************************************************)
(* CacheManager.batchUpdateRecords with updatePartitionBatch               *)
(***************************************************************************)
RECURSIVE StampAll(_, _)
StampAll(records, zone) ==
    IF Len(records) = 0 THEN <<>>
    ELSE <<StampRecord(Head(records), zone)>> \o StampAll(Tail(records), zone)

RECURSIVE GroupCount(_)
GroupCount(groups) ==
    IF Len(groups) = 0 THEN 0
    ELSE Len(Head(groups).records) + GroupCount(Tail(groups))

\* the loop over the groups, from the group Head(todo) on
RECURSIVE BatchGroups(_, _)
BatchGroups(st, s) ==
    IF Len(st.calls[s].todo) = 0
    THEN Finish(Invalidate(st), s, Returned(TRUE, st.calls[s].count, <<>>))
    ELSE IF \/ ~Registered(st, Head(st.calls[s].todo).id)
            \/ ~Contains(st, Head(st.calls[s].todo).id)
    THEN BatchGroups([st EXCEPT !.calls[s].lost = @ + Len(Head(st.calls[s].todo).records),
                                !.calls[s].todo = Tail(@)], s)
    ELSE IF st.db.closed
    THEN Finish([st EXCEPT !.calls[s].lost = @ + GroupCount(st.calls[s].todo)],
                s, Returned(TRUE, 0, <<>>))
    ELSE StartTx([st EXCEPT !.calls[s].pc = "updatePartitionBatch"],
                 s, {Head(st.calls[s].todo).id}, "readwrite")

cmBatchUpdateRecords(st, s, records, zone) ==
    IF Len(records) = 0
    THEN Finish(Begin(st, s, [IdleFrame EXCEPT !.op = "batchUpdateRecords"]),
                s, Returned(TRUE, 0, <<>>))
    ELSE BatchGroups(Begin(Disturb(st), s,
                           [IdleFrame EXCEPT !.op = "batchUpdateRecords",
                                             !.todo = groupRecordsByPartition(records, zone)]),
                     s)

\* transaction.oncomplete of the transaction txq[i] of updatePartitionBatch
BatchComplete(st, i, s, zone) ==
    BatchGroups(Changed(
                    [RemoveTx(st, i) EXCEPT
                        !.stores[Head(st.calls[s].todo).id] =
                            PutAll(@, StampAll(Head(st.calls[s].todo).records, zone)),
                        !.calls[s].count = @ + Len(Head(st.calls[s].todo).records),
                        !.calls[s].written = @ + Len(Head(st.calls[s].todo).records),
                        !.calls[s].todo = Tail(@)],
                    StampAll(Head(st.calls[s].todo).records, zone)),
                s)

(***************************************************************************)
(* CacheManager.deleteRecord with deleteFromPartition                      *)
(***************************************************************************)
\* the partitions still to try are todo; pc tells the located attempt from
\* the scan of all partitions
RECURSIVE DeleteTry(_, _)
DeleteTry(st, s) ==
    IF Len(st.calls[s].todo) = 0
    THEN IF st.calls[s].pc = "located"
         THEN DeleteTry([st EXCEPT !.calls[s].pc = "scan",
                                   !.calls[s].todo = st.partitions], s)
         ELSE Finish(st, s, Returned(FALSE, 0, <<>>))
    ELSE IF \/ ~Registered(st, Head(st.calls[s].todo))
            \/ ~Contains(st, Head(st.calls[s].todo))
    THEN DeleteTry([st EXCEPT !.calls[s].todo = Tail(@)], s)
    ELSE IF st.db.closed
    THEN Finish(st, s, Rejected)
    ELSE StartTx(st, s, {Head(st.calls[s].todo)}, "readwrite")

cmDeleteRecord(st, s, recordId, recordTimestamp, zone) ==
    DeleteTry(Begin(Disturb(st), s,
                    [IdleFrame EXCEPT
                        !.op = "deleteRecord", !.pc = "located", !.id = recordId,
                        !.todo = IF Truthy(recordTimestamp)
                                 THEN <<PartitionOfTimestamp(recordTimestamp, zone)>>
                                 ELSE <<>>]),
              s)

\* getRequest.onsuccess, and deleteRequest.onsuccess, of the transaction txq[i]
DeleteStep(st, i, s) ==
    IF st.calls[s].id \in DOMAIN st.stores[Head(st.calls[s].todo)]
    THEN Finish(Invalidate(Changed(
                    [RemoveTx(st, i) EXCEPT
                        !.stores[Head(st.calls[s].todo)] = MapDelete(@, st.calls[s].id)],
                    <<st.stores[Head(st.calls[s].todo)][st.calls[s].id]>>)),
                s, Returned(TRUE, 0, <<>>))
    ELSE DeleteTry([RemoveTx(st, i) EXCEPT !.calls[s].todo = Tail(@)], s)

(***************************************************************************)
(* CacheManager.registerPartition, ensurePartitionsExist, ensurePartition  *)
(***************************************************************************)
registerPartition(st, partitionId) ==
    IF Registered(st, partitionId) THEN st
    ELSE [st EXCEPT !.partitions = Append(@, partitionId)]

RECURSIVE RegisterAll(_, _)
RegisterAll(st, partitionIds) ==
    IF Len(partitionIds) = 0 THEN st
    ELSE RegisterAll(registerPartition(st, Head(partitionIds)), Tail(partitionIds))

\* the registered partitions whose store this.db does not list
MissingPartitions(st) == SelectSeq(st.partitions, LAMBDA p : ~Contains(st, p))

\* indexedDB.open(this.dbName, version) with its onupgradeneeded
OpenRequest(st, s, version, create) ==
    [st EXCEPT !.openQueue = Append(@, [slot |-> s, version |-> version, create |-> create]),
               !.calls[s].pc = "open",
               !.calls[s].opens = @ + 1]

\* ensurePartitionsExist opening the database at the version it has
ensurePartitionsExist_SameVersion(st, s) ==
    IF Len(MissingPartitions(st)) = 0
    THEN [st EXCEPT !.calls[s].pc = "ensured"]
    ELSE OpenRequest([st EXCEPT !.db.closed = TRUE], s,
                     st.db.version, MissingPartitions(st))

\* ensurePartitionsExist as far as its promise: the frame in slot s awaits it
ensurePartitionsExist(st, s) ==
    IF Len(MissingPartitions(st)) = 0
    THEN [st EXCEPT !.calls[s].pc = "ensured"]
    ELSE OpenRequest([st EXCEPT !.db.closed = TRUE], s,
                     st.db.version + 1, MissingPartitions(st))

\* ensurePartition from the second look at objectStoreNames on
EnsureCreate(st, s) ==
    IF Contains(st, st.calls[s].todo[1])
    THEN Finish([st EXCEPT !.partitionCreatedCache = @ \cup {st.calls[s].todo[1]}],
                s, Returned(TRUE, 0, <<>>))
    ELSE OpenRequest([st EXCEPT !.createPartitionLock = TRUE,
                                !.db.closed = TRUE,
                                !.dbVersion = @ + 1],
                     s, st.dbVersion + 1, st.calls[s].todo)

\* ensurePartition from while (this.createPartitionLock) on
EnsureWait(st, s) ==
    IF st.createPartitionLock
    THEN [st EXCEPT !.calls[s].pc = "setTimeout"]
    ELSE EnsureCreate(st, s)

EnsureRegistered(st, s) ==
    IF Contains(st, st.calls[s].todo[1])
    THEN Finish([st EXCEPT !.partitionCreatedCache = @ \cup {st.calls[s].todo[1]}],
                s, Returned(TRUE, 0, <<>>))
    ELSE EnsureWait(st, s)

ensurePartition(st, s, partitionId) ==
    IF partitionId \in st.partitionCreatedCache
    THEN Finish(Begin(st, s, [IdleFrame EXCEPT !.op = "ensurePartition"]),
                s, Returned(TRUE, 0, <<>>))
    ELSE EnsureRegistered(
             Begin(registerPartition(st, partitionId), s,
                   [IdleFrame EXCEPT !.op = "ensurePartition", !.todo = <<partitionId>>]),
             s)

\* The open request at the head of the queue settles.  A request for the
\* version the database has, opens it; for a higher one, it creates the
\* stores it was asked for that are not there; for a lower one, it fails.
OpenFails(st) == Head(st.openQueue).version < st.diskVersion

Upgraded(st) ==
    [st EXCEPT
        !.stores = [p \in (DOMAIN @) \cup
                          {Head(st.openQueue).create[i] :
                               i \in 1..Len(Head(st.openQueue).create)} |->
                        IF p \in DOMAIN @ THEN @[p] ELSE EmptyMap],
        !.diskVersion = Head(st.openQueue).version]

\* request.onsuccess: this.db = event.target.result
Connected(st) ==
    [st EXCEPT !.db = [version |-> st.diskVersion, names |-> DOMAIN st.stores,
                       closed |-> FALSE],
               !.leaked = IF st.db.closed THEN @ ELSE @ + 1,
               !.openQueue = Tail(@)]

Opened(st) ==
    IF Head(st.openQueue).version > st.diskVersion
    THEN Connected(Upgraded(st))
    ELSE Connected(st)

(***************************************************************************)
(* CacheManager.appendData with writeToPartitionTables and                 *)
(* storePartitionedBatch                                                   *)
(***************************************************************************)
GroupIds(groups) == [i \in 1..Len(groups) |-> groups[i].id]

\* the loop of writeToPartitionTables from the group Head(todo) on; the
\* call of appendData itself goes on to count, invalidate and return
RECURSIVE writeToPartitionTables(_, _)
writeToPartitionTables(st, s) ==
    IF Len(st.calls[s].todo) = 0
    THEN IF st.calls[s].op = "appendData"
         THEN Finish(Invalidate(st), s, Returned(TRUE, st.calls[s].count, <<>>))
         ELSE Finish(st, s, Returned(TRUE, 0, <<>>))
    ELSE IF \/ ~Registered(st, Head(st.calls[s].todo).id)
            \/ ~Contains(st, Head(st.calls[s].todo).id)
            \/ st.db.closed
    THEN writeToPartitionTables(
             [st EXCEPT !.calls[s].lost = @ + Len(Head(st.calls[s].todo).records),
                        !.calls[s].todo = Tail(@)], s)
    ELSE StartTx([st EXCEPT !.calls[s].pc = "storePartitionedBatch"],
                 s, {Head(st.calls[s].todo).id}, "readwrite")

\* transaction.oncomplete of storePartitionedBatch under writeToPartitionTables
WriteComplete(st, i, s) ==
    writeToPartitionTables(
        [RemoveTx(st, i) EXCEPT
            !.stores[Head(st.calls[s].todo).id] = PutAll(@, Head(st.calls[s].todo).records),
            !.calls[s].written = @ + Len(Head(st.calls[s].todo).records),
            !.calls[s].todo = Tail(@)],
        s)

\* the continuation of a promise that was already resolved
ResumeEnsured(st, b) ==
    IF st.calls[b].pc = "ensured" THEN writeToPartitionTables(st, b) ELSE st

\* step 3, in slot b, then step 4: the migration is begun and not awaited
AppendSplit(st, s, b, groups, newPartitions) ==
    IF Len(newPartitions) = 0
    THEN writeToPartitionTables(
             Begin(st, s, [IdleFrame EXCEPT !.op = "appendData", !.todo = groups,
                                            !.count = GroupCount(groups)]),
             s)
    ELSE ResumeEnsured(
             writeToPartitionTables(
                 Begin(ensurePartitionsExist(
                           Begin(RegisterAll(st, newPartitions), b,
                                 [IdleFrame EXCEPT
                                     !.op = "writeToPartitionTables",
                                     !.todo = SelectSeq(groups,
                                         LAMBDA g : \E i \in 1..Len(newPartitions) :
                                                        newPartitions[i] = g.id)]),
                           b),
                       s,
                       [IdleFrame EXCEPT
                           !.op = "appendData",
                           !.todo = SelectSeq(groups,
                               LAMBDA g : \A i \in 1..Len(newPartitions) :
                                              newPartitions[i] # g.id),
                           !.count = GroupCount(groups)]),
                 s),
             b)

AppendGrouped(st, s, b, groups) ==
    AppendSplit(st, s, b, groups,
                SelectSeq(GroupIds(groups), LAMBDA p : ~Registered(st, p)))

cmAppendData(st, s, b, newRecords, zone) ==
    IF Len(newRecords) = 0
    THEN Finish(Begin(st, s, [IdleFrame EXCEPT !.op = "appendData"]),
                s, Returned(TRUE, 0, <<>>))
    ELSE AppendGrouped(Disturb(st), s, b, groupRecordsByPartition(newRecords, zone))

(***************************************************************************)
(* CacheManager.queryDateRangeOptimized with queryPartitionOptimized       *)
(***************************************************************************)
StartOf(frame, zone) == GetTime(frame.window[1], zone)
EndOf(frame, zone) == GetTime(frame.window[2], zone)

QueryKey(frame, zone) ==
    getCacheKey(StartOf(frame, zone), EndOf(frame, zone),
                <<frame.opts.limit, frame.opts.offset, frame.opts.orderBy>>)

\* what the partitions of the window hold, read in one go
RECURSIVE ScanAll(_, _, _, _)
ScanAll(st, partitionIds, frame, zone) ==
    IF Len(partitionIds) = 0 THEN <<>>
    ELSE (IF Head(partitionIds) \in DOMAIN st.stores
          THEN IndexScan(st.stores[Head(partitionIds)], StartOf(frame, zone),
                         EndOf(frame, zone), frame.opts.orderBy)
          ELSE <<>>)
         \o ScanAll(st, Tail(partitionIds), frame, zone)

PostWriteContents(st, frame, zone) ==
    applyPagination(
        SortByTime(ScanAll(st, getPartitionsInRange(st.partitions, frame.window[1],
                                                    frame.window[2]),
                           frame, zone),
                   <<>>, frame.opts.orderBy),
        frame.opts.limit, frame.opts.offset)

\* the query returns data; awaited by preloadHotData, its result becomes
\* the hot-window slot
QueryReturn(st, s, data, zone) ==
    IF st.calls[s].op = "preloadHotData"
    THEN Finish([st EXCEPT !.queryCache =
                    setHotData(@, data, StartOf(st.calls[s], zone),
                               EndOf(st.calls[s], zone), st.now)],
                s, Returned(TRUE, 0, <<>>))
    ELSE Finish([st EXCEPT !.calls[s].expect = PostWriteContents(st, st.calls[s], zone)],
                s, Returned(TRUE, Len(data), data))

\* sort, paginate, cache and return
QueryResult(st, s, result, zone) ==
    IF st.calls[s].opts.useCache
    THEN QueryReturn([st EXCEPT !.queryCache =
                         set(@, QueryKey(st.calls[s], zone), result, st.now)],
                     s, result, zone)
    ELSE QueryReturn(st, s, result, zone)

QuerySorted(st, s, zone) ==
    QueryResult(st, s,
                applyPagination(SortByTime(st.calls[s].acc, <<>>, st.calls[s].opts.orderBy),
                                st.calls[s].opts.limit, st.calls[s].opts.offset),
                zone)

RECURSIVE StartReads(_, _, _)
StartReads(st, s, partitionIds) ==
    IF Len(partitionIds) = 0 THEN st
    ELSE IF Registered(st, Head(partitionIds)) /\ Contains(st, Head(partitionIds))
    THEN StartReads(StartTx([st EXCEPT !.calls[s].pend = @ \cup {Head(partitionIds)}],
                            s, {Head(partitionIds)}, "readonly"),
                    s, Tail(partitionIds))
    ELSE StartReads(st, s, Tail(partitionIds))

RECURSIVE Flat(_, _)
Flat(partitionIds, got) ==
    IF Len(partitionIds) = 0 THEN <<>>
    ELSE (IF Head(partitionIds) \in DOMAIN got THEN got[Head(partitionIds)] ELSE <<>>)
         \o Flat(Tail(partitionIds), got)

FirstN(seq, n) == SubSeq(seq, 1, IF n < Len(seq) THEN n ELSE Len(seq))
AfterN(seq, n) == SubSeq(seq, (IF n < Len(seq) THEN n ELSE Len(seq)) + 1, Len(seq))

\* the loop over the batches from the batch that begins todo; then, when
\* Promise.all has resolved, allData.push and the early exit
RECURSIVE QueryBatches(_, _, _)
QueryGathered(st, s, zone) ==
    IF /\ st.calls[s].opts.limit # 0
       /\ Len(st.calls[s].acc) + Len(Flat(st.calls[s].batch, st.calls[s].got))
             >= st.calls[s].opts.offset + st.calls[s].opts.limit
    THEN QuerySorted([st EXCEPT !.calls[s].acc = @ \o Flat(st.calls[s].batch, st.calls[s].got)],
                     s, zone)
    ELSE QueryBatches([st EXCEPT !.calls[s].acc = @ \o Flat(st.calls[s].batch, st.calls[s].got),
                                 !.calls[s].batch = <<>>,
                                 !.calls[s].got = EmptyMap],
                      s, zone)

QueryStarted(st, s, zone) ==
    IF st.calls[s].pend = {} THEN QueryGathered(st, s, zone) ELSE st

QueryBatches(st, s, zone) ==
    IF Len(st.calls[s].todo) = 0
    THEN QuerySorted(st, s, zone)
    ELSE IF /\ st.db.closed
            /\ \E i \in 1..Len(FirstN(st.calls[s].todo, st.calls[s].opts.maxParallel)) :
                   /\ Registered(st, st.calls[s].todo[i])
                   /\ Contains(st, st.calls[s].todo[i])
    THEN QueryReturn(st, s, <<>>, zone)
    ELSE QueryStarted(
             StartReads([st EXCEPT
                            !.calls[s].pc = "queryPartitionOptimized",
                            !.calls[s].batch = FirstN(st.calls[s].todo, st.calls[s].opts.maxParallel),
                            !.calls[s].todo = AfterN(@, st.calls[s].opts.maxParallel)],
                        s, FirstN(st.calls[s].todo, st.calls[s].opts.maxParallel)),
             s, zone)

\* the cursor of the transaction txq[i] has run to its end
QueryRead(st, i, s, zone) ==
    QueryStarted(
        [RemoveTx(st, i) EXCEPT
            !.calls[s].got = MapSet(@, TheStoreOf(st.txq[i]),
                                    IndexScan(st.stores[TheStoreOf(st.txq[i])],
                                              StartOf(st.calls[s], zone),
                                              EndOf(st.calls[s], zone),
                                              st.calls[s].opts.orderBy)),
            !.calls[s].pend = @ \ {TheStoreOf(st.txq[i])}],
        s, zone)

QueryScan(st, s, zone) ==
    QueryBatches([st EXCEPT !.calls[s].todo =
                     getPartitionsInRange(st.partitions, st.calls[s].window[1],
                                          st.calls[s].window[2])],
                 s, zone)

QueryCached(st, s, found, zone) ==
    IF found.hit
    THEN QueryReturn([st EXCEPT !.queryCache = found.qc], s, found.data, zone)
    ELSE QueryScan([st EXCEPT !.queryCache = found.qc], s, zone)

QueryBegun(st, s, zone) ==
    IF ~st.calls[s].opts.useCache
    THEN QueryScan(st, s, zone)
    ELSE IF canUseHotData(st.queryCache, StartOf(st.calls[s], zone), EndOf(st.calls[s], zone))
    THEN QueryReturn(st, s,
             applyPagination(filterFromHotData(st.queryCache, StartOf(st.calls[s], zone),
                                               EndOf(st.calls[s], zone)),
                             st.calls[s].opts.limit, st.calls[s].opts.offset),
             zone)
    ELSE QueryCached(st, s, get(st.queryCache, QueryKey(st.calls[s], zone), st.now), zone)

\* QueryCache.preloadHotData(cacheManager) called at the Date endDate: the
\* query of the seven days before it, without the cache
preloadHotData(st, s, endDate, zone) ==
    QueryScan(Begin(st, s,
                    [IdleFrame EXCEPT
                        !.op = "preloadHotData",
                        !.window = <<SetDate(endDate, GetDate(endDate) - 7), endDate>>,
                        !.opts = [DefaultOptions EXCEPT !.useCache = FALSE]]),
              s, zone)

queryDateRangeOptimized(st, s, startDate, endDate, options, zone) ==
    QueryBegun(
        Begin(st, s,
              [IdleFrame EXCEPT
                  !.op = "queryDateRangeOptimized",
                  !.window = <<startDate, endDate>>,
                  !.opts = options,
                  !.quiet = ~WriteInFlight(st),
                  !.covers = \E c \in st.changed :
                                 /\ GetTime(startDate, zone) <= c
                                 /\ c <= GetTime(endDate, zone)]),
        s, zone)

(***************************************************************************)
(* CacheManager.storeAllData with clearAllData, sortDataByTime,            *)
(* storePartitionedBatch and saveMetadataAndShardIndex                     *)
(***************************************************************************)
\* the metadata stores, which every version of the database has
MetaStore == <<0, 0>>

NoMeta == [key |-> "none", totalCount |-> 0, lastUpdated |-> 0, lastSyncTime |-> 0]

\* the record saveMetadataAndShardIndex puts
MetaRecord(totalCount, t) ==
    [key |-> "allDataMeta", totalCount |-> totalCount, lastUpdated |-> t,
     lastSyncTime |-> t]

\* Array.prototype.sort (stable) by parseTimeToTimestamp(start_time)
InsertByStart(sorted, r, zone) ==
    SelectSeq(sorted, LAMBDA x : parseTimeToTimestamp(x.start_time, zone)
                                     <= parseTimeToTimestamp(r.start_time, zone))
    \o <<r>>
    \o SelectSeq(sorted, LAMBDA x : parseTimeToTimestamp(x.start_time, zone)
                                        > parseTimeToTimestamp(r.start_time, zone))

RECURSIVE SortByStart(_, _, _)
SortByStart(data, sorted, zone) ==
    IF Len(data) = 0 THEN sorted
    ELSE SortByStart(Tail(data), InsertByStart(sorted, Head(data), zone), zone)

sortDataByTime(data, zone) == SortByStart(data, <<>>, zone)

\* step 5 from the partition Head(todo) on, then step 6.  A transaction()
\* that throws inside the async executor of saveMetadataAndShardIndex
\* leaves its promise pending for ever.
StoreGroups(st, s) ==
    IF Len(st.calls[s].todo) = 0
    THEN IF st.db.closed
         THEN [st EXCEPT !.calls[s].pc = "pending"]
         ELSE StartTx([st EXCEPT !.calls[s].pc = "saveMetadataAndShardIndex",
                                 !.calls[s].recs =
                                     <<MetaRecord(st.calls[s].total, st.now)>>],
                      s, {MetaStore}, "readwrite")
    ELSE IF ~Contains(st, Head(st.calls[s].todo).id) \/ st.db.closed
    THEN Finish(st, s, Rejected)
    ELSE StartTx([st EXCEPT !.calls[s].pc = "storePartitionedBatch"],
                 s, {Head(st.calls[s].todo).id}, "readwrite")

StoreEnsured(st, s) ==
    IF st.calls[s].pc = "ensured" THEN StoreGroups(st, s) ELSE st

\* steps 2 to 4
StoreGrouped(st, s, groups) ==
    StoreEnsured(
        ensurePartitionsExist(
            [RegisterAll(st, GroupIds(groups)) EXCEPT !.calls[s].todo = groups,
                                                      !.calls[s].total = Len(st.calls[s].recs),
                                                      !.calls[s].recs = <<>>],
            s),
        s)

\* transaction.oncomplete of clearAllData
ClearComplete(st, i, s, zone) ==
    StoreGrouped(
        [RemoveTx(st, i) EXCEPT
            !.stores = [p \in DOMAIN @ |->
                           IF p \in st.txq[i].scope THEN EmptyMap ELSE @[p]]],
        s, groupRecordsByPartition(sortDataByTime(st.calls[s].recs, zone), zone))

cmStoreAllData(st, s, allData) ==
    IF st.db.closed
    THEN Finish(Begin(Disturb(st), s, [IdleFrame EXCEPT !.op = "storeAllData"]),
                s, Rejected)
    ELSE StartTx(Begin(Disturb(st), s,
                       [IdleFrame EXCEPT !.op = "storeAllData", !.pc = "clearAllData",
                                         !.recs = allData, !.input = allData]),
                 s,
                 {MetaStore} \cup {st.partitions[i] : i \in
                     {j \in 1..Len(st.partitions) : Contains(st, st.partitions[j])}},
                 "readwrite")

\* transaction.oncomplete of storePartitionedBatch under storeAllData; the
\* call then yields with setTimeout(0)
StoreComplete(st, i, s) ==
    [RemoveTx(st, i) EXCEPT
        !.stores[Head(st.calls[s].todo).id] = PutAll(@, Head(st.calls[s].todo).records),
        !.calls[s].count = @ + Len(Head(st.calls[s].todo).records),
        !.calls[s].todo = Tail(@),
        !.calls[s].pc = "setTimeout"]

\* transaction.oncomplete of saveMetadataAndShardIndex
MetaComplete(st, i, s) ==
    Finish([RemoveTx(st, i) EXCEPT !.meta = st.calls[s].recs[1]],
           s, Returned(TRUE, st.calls[s].count, <<>>))

(***************************************************************************)
(* The open request at the head of the queue settles, and the call that    *)
(* awaits it goes on.                                                      *)
(***************************************************************************)
\* request.onerror where ensurePartition would lack its finally
OpenError_LockKept(st, s) ==
    IF st.calls[s].op = "ensurePartition"
    THEN Finish([st EXCEPT !.openQueue = Tail(@)], s, Rejected)
    ELSE IF st.calls[s].op \in {"storeAllData", "ensurePartitionsExist"}
    THEN Finish([st EXCEPT !.openQueue = Tail(@)], s, Rejected)
    ELSE Finish([st EXCEPT !.openQueue = Tail(@)], s, Returned(FALSE, 0, <<>>))

OpenError(st, s) ==
    IF st.calls[s].op = "ensurePartition"
    THEN Finish([st EXCEPT !.createPartitionLock = FALSE, !.openQueue = Tail(@)],
                s, Rejected)
    ELSE IF st.calls[s].op \in {"storeAllData", "ensurePartitionsExist"}
    THEN Finish([st EXCEPT !.openQueue = Tail(@)], s, Rejected)
    ELSE Finish([st EXCEPT !.openQueue = Tail(@)], s, Returned(FALSE, 0, <<>>))

OpenSuccess(st, s, version) ==
    IF st.calls[s].op = "ensurePartition"
    THEN Finish([st EXCEPT !.createPartitionLock = FALSE,
                           !.partitionCreatedCache = @ \cup {st.calls[s].todo[1]}],
                s, Returned(TRUE, 0, <<>>))
    ELSE IF st.calls[s].op = "storeAllData"
    THEN StoreGroups([st EXCEPT !.dbVersion = version], s)
    ELSE IF st.calls[s].op = "ensurePartitionsExist"
    THEN Finish([st EXCEPT !.dbVersion = version], s, Returned(TRUE, 0, <<>>))
    ELSE writeToPartitionTables([st EXCEPT !.dbVersion = version], s)

OpenSettled(st) ==
    IF OpenFails(st)
    THEN OpenError(st, Head(st.openQueue).slot)
    ELSE OpenSuccess(Opened(st), Head(st.openQueue).slot, Head(st.openQueue).version)

\* an upgrade waits until every other connection is closed and their
\* transactions are complete
CanSettle(st) ==
    /\ Len(st.openQueue) > 0
    /\ Head(st.openQueue).version > st.diskVersion =>
           /\ st.db.closed
           /\ st.leaked = 0
           /\ Len(st.txq) = 0

\* a call of ensurePartitionsExist itself returns when its promise resolves
EnsureAwaited(st, s) ==
    IF st.calls[s].pc = "ensured" THEN Finish(st, s, Returned(TRUE, 0, <<>>)) ELSE st

(***************************************************************************)
(* Specification of CycleRuleEngine.getGroup as a pure function: Init      *)
(* draws a configuration, a cycle type and a Date; CEGetGroup applies it.  *)
(***************************************************************************)
\* host zones the model is run in: UTC and UTC+8
TimeZones == {0, 8 * 60}

\* the Dates handed to getGroup: CEDays consecutive days from 2024-01-01,
\* each at the wall-clock times CETimesOfDay
CEDays == 366
CETimesOfDay == {<<0, 0>>, <<5, 59>>, <<12, 0>>}
CEDates == {MkDate(2024, 0, d, hm[1], hm[2]) : d \in 1..CEDays, hm \in CETimesOfDay}

\* the cycle start times "HH:mm" the configurations use
StartTimes == {<<0, 0>>, <<6, 0>>}

\* the allowed configurations of one cycle type, the other types at their defaults
ConfigsOf(type) ==
    IF type = "day"
    THEN {[DefaultConfig EXCEPT !.day = [start |-> st]] : st \in StartTimes}
    ELSE IF type = "week"
    THEN {[DefaultConfig EXCEPT !.week = [startDay |-> sd, startTime |-> st]] :
            sd \in 0..6, st \in StartTimes}
    ELSE IF type = "month"
    THEN {[DefaultConfig EXCEPT !.month = [startDate |-> sd, startTime |-> st]] :
            sd \in 1..31, st \in StartTimes}
    ELSE {[DefaultConfig EXCEPT !.quarter = [startMonth |-> sm, startTime |-> st]] :
            sm \in {1, 4, 7, 10}, st \in StartTimes}

NoGroup == [ok |-> FALSE, key |-> <<"none">>, rangeStart |-> 0, rangeEnd |-> 0,
            error |-> "none"]

\* the catch-up frame when no catch-up runs
NoCatchup ==
    [pc |-> "idle", op |-> "none", slot |-> 0, changes |-> <<>>,
     outcome |-> "none", ret |-> [kind |-> "none", hasNewData |-> FALSE, count |-> 0]]

\* the two managers as constructed, the page never hidden before
\* no reconnect scheduled, no close event yet
RCIdle ==
    /\ isReconnecting = FALSE
    /\ reconnectTimer = FALSE
    /\ wasClean = TRUE

NetIdle ==
    /\ RCIdle
    /\ isConnected = FALSE
    /\ readyState = "none"
    /\ pendingStatsRequests = {}
    /\ dataRequestPromises = {}
    /\ promises = EmptyMap
    /\ timers = {}
    /\ sent = {}
    /\ inbox = <<>>
    /\ leaveTime = "none"
    /\ catchup = NoCatchup

\* dsLast before any call
NoDSCall == [op |-> "none", arg |-> <<>>, isDelete |-> FALSE, ret |-> <<>>]

\* the DataStore before any load
DSIdle ==
    /\ buckets = EmptyMap
    /\ recordToBucket = EmptyMap
    /\ dsType = "day"
    /\ dsInput = <<>>
    /\ dsLoaded = FALSE
    /\ dsCalls = 0
    /\ dsLast = NoDSCall

\* qcLast before any call
NoCall ==
    [op |-> "none", key |-> <<>>, dataSize |-> 0, hit |-> FALSE,
     unchanged |-> FALSE, evictions |-> <<>>, data |-> <<>>]

\* the QueryCache as constructed
QCIdle ==
    /\ cache = <<>>
    /\ currentCacheSize = 0
    /\ hotDataCache = NoHotData
    /\ fullDataCache = NoFullData
    /\ now = 0
    /\ qcLast = NoCall

\* the CacheManager as constructed, its database as init() first finds it,
\* and no call made
MaxSlots == 2

CMFresh ==
    /\ partitions = <<>>
    /\ stores = EmptyMap
    /\ diskVersion = 1
    /\ db = [version |-> 1, names |-> {}, closed |-> FALSE]
    /\ dbVersion = 1
    /\ openQueue = <<>>
    /\ leaked = 0
    /\ createPartitionLock = FALSE
    /\ partitionCreatedCache = {}
    /\ txq = <<>>
    /\ changed = {}
    /\ meta = NoMeta
    /\ cmCalls = 0

CMIdle ==
    /\ calls = [s \in 1..MaxSlots |-> IdleFrame]
    /\ CMFresh

CEInit ==
    /\ NetIdle
    /\ tz = 0
    /\ DSIdle
    /\ QCIdle
    /\ CMIdle
    /\ ceType \in CycleTypes
    /\ config \in ConfigsOf(ceType)
    /\ ceDate \in CEDates
    /\ ceGroup = NoGroup

CEGetGroup ==
    /\ ceGroup = NoGroup
    /\ ceGroup' = getGroup(config, ceDate, ceType)
    /\ UNCHANGED <<netVars, tz, config, ceDate, ceType, dsVars, qcVars, cmVars>>

CENext == CEGetGroup

SpecCycle == CEInit /\ [][CENext]_vars

\* C9: every group getGroup returns is a half-open range that holds the
\* instant it was asked about: rangeStart <= t < rangeEnd
C9_GroupContainsInstant ==
    ceGroup # NoGroup =>
        /\ ceGroup.ok
        /\ ceGroup.rangeStart <= ceDate
        /\ ceDate < ceGroup.rangeEnd


(***************************************************************************)
(* Specification of the DataStore: any sequence of loadData,               *)
(* addRecordsToBucketBatch, addRecordToBucket, updateRecord and            *)
(* mergeIncrementalData calls over a small universe of records.            *)
(***************************************************************************)
\* wall-clock literals of the start times
T_Jan15_2330 == MkDate(2024, 0, 15, 23, 30)
T_Jan16_0010 == MkDate(2024, 0, 16, 0, 10)
T_Jan16_1200 == MkDate(2024, 0, 16, 12, 0)

Str(v) == [t |-> "string", v |-> v]
Rec(id, st, res) == [id |-> id, plan_id |-> "P1", start_time |-> st, task_result |-> res]

DSRecords ==
    { Rec("1", Str(T_Jan15_2330), "ok"),
      Rec("1", Str(T_Jan16_0010), "ok"),
      Rec("1", Str(T_Jan16_1200), "fail"),
      Rec("2", Str(T_Jan16_1200), "ok"),
      Rec("2", Str(InvalidDate), "ok"),
      Rec("2", [t |-> "undefined", v |-> 0], "ok"),
      Rec(Null, Str(T_Jan16_0010), "ok"),
      \* serial 45307 is 2024-01-16 00:00 UTC
      Rec(Null, [t |-> "number", v |-> ExcelSerialOfEpoch + 745], "ok") }

\* the records the incremental operations are called with
DSIncRecords ==
    { Rec("1", Str(T_Jan15_2330), "ok"),
      Rec("1", Str(T_Jan16_1200), "fail"),
      Rec("2", Str(T_Jan16_1200), "ok"),
      Rec("2", Str(InvalidDate), "ok"),
      Rec(Null, Str(T_Jan16_0010), "ok") }

\* the longest list handed to loadData, and to the other batch operations
MaxLoad == 3
MaxBatch == 2
\* the number of DataStore calls in one run
MaxCalls == 5

RECURSIVE ListsUpTo(_, _)
ListsUpTo(universe, n) ==
    IF n = 0 THEN {<<>>}
    ELSE LET shorter == ListsUpTo(universe, n - 1)
         IN  shorter \cup {Append(l, r) : l \in shorter, r \in universe}

DSLoadLists == ListsUpTo(DSRecords, MaxLoad)
DSLists == ListsUpTo(DSIncRecords, MaxBatch)

DSConfigs == ConfigsOf("day")

TheStore == [buckets |-> buckets, recordToBucket |-> recordToBucket]

DSInit ==
    /\ NetIdle
    /\ tz \in TimeZones
    /\ config \in DSConfigs
    /\ ceDate = 0 /\ ceType = "day" /\ ceGroup = NoGroup
    /\ DSIdle
    /\ QCIdle
    /\ CMIdle

\* the store becomes ds and the call is recorded in dsLast
DSDone(ds, input, loaded, last) ==
    /\ buckets' = ds.buckets
    /\ recordToBucket' = ds.recordToBucket
    /\ dsInput' = input
    /\ dsLoaded' = loaded
    /\ dsCalls' = dsCalls + 1
    /\ dsLast' = last
    /\ UNCHANGED <<netVars, tz, config, ceVars, dsType, qcVars, cmVars>>

DSSet(ds, input, loaded) == DSDone(ds, input, loaded, NoDSCall)

DSLoadData ==
    /\ dsCalls < MaxCalls
    /\ \E data \in DSLists :
        DSSet(loadData(data, config, dsType, tz), data, TRUE)

DSAddRecordsToBucketBatch ==
    /\ dsCalls < MaxCalls
    /\ \E data \in DSLists :
        DSSet(addRecordsToBucketBatch(TheStore, data, config, dsType, tz), <<>>, FALSE)

DSAddRecordToBucket ==
    /\ dsCalls < MaxCalls
    /\ \E r \in DSIncRecords :
        DSSet(addRecordToBucket(TheStore, r, config, dsType, tz).ds, <<>>, FALSE)

DSUpdateRecord ==
    /\ dsCalls < MaxCalls
    /\ \E r \in DSIncRecords, isDelete \in BOOLEAN :
        DSDone(updateRecord(TheStore, r, config, dsType, tz, isDelete).ds, <<>>, FALSE,
               [op |-> "updateRecord", arg |-> r, isDelete |-> isDelete,
                ret |-> updateRecord(TheStore, r, config, dsType, tz, isDelete).ret])

DSMergeIncrementalData ==
    /\ dsCalls < MaxCalls
    /\ \E data \in DSLists :
        DSSet(mergeIncrementalData(TheStore, data, config, dsType, tz), <<>>, FALSE)

DSNext ==
    \/ DSLoadData
    \/ DSAddRecordsToBucketBatch
    \/ DSAddRecordToBucket
    \/ DSUpdateRecord
    \/ DSMergeIncrementalData

SpecDS == DSInit /\ [][DSNext]_vars

\* the places <<bucket key, index>> where a record with key k is held
Occurrences(bs, k) ==
    {o \in UNION {{b} \X (1..Len(bs[b].records)) : b \in DOMAIN bs} :
        getRecordKey(bs[o[1]].records[o[2]]) = k}

\* the identity keys held in the bucket lists
HeldKeys(bs) ==
    {getRecordKey(bs[o[1]].records[o[2]]) :
        o \in UNION {{b} \X (1..Len(bs[b].records)) : b \in DOMAIN bs}}

\* C7: after any sequence of DataStore calls the bucket lists and the reverse
\* map agree in both directions: every key held is held once, in the bucket
\* recordToBucket names, and every key of recordToBucket has its record there
C7_BucketsAgreeWithReverseMap ==
    /\ \A k \in HeldKeys(buckets) :
        /\ Cardinality(Occurrences(buckets, k)) = 1
        /\ k \in DOMAIN recordToBucket
        /\ \A o \in Occurrences(buckets, k) : recordToBucket[k] = o[1]
    /\ \A k \in DOMAIN recordToBucket : k \in HeldKeys(buckets)

(***************************************************************************)
(* Specification of DataStore.loadData as a function of its input: Init    *)
(* draws the record list, the zone and the day configuration; LDLoadData   *)
(* loads the list into the empty store.                                    *)
(***************************************************************************)
LDInit ==
    /\ NetIdle
    /\ tz \in TimeZones
    /\ config \in DSConfigs
    /\ ceDate = 0 /\ ceType = "day" /\ ceGroup = NoGroup
    /\ buckets = EmptyMap
    /\ recordToBucket = EmptyMap
    /\ dsType = "day"
    /\ dsInput \in DSLoadLists
    /\ dsLoaded = FALSE
    /\ dsCalls = 0
    /\ dsLast = NoDSCall
    /\ QCIdle
    /\ CMIdle

LDLoadData ==
    /\ ~dsLoaded
    /\ DSSet(loadData(dsInput, config, dsType, tz), dsInput, TRUE)

LDNext == LDLoadData

SpecLoad == LDInit /\ [][LDNext]_vars

\* the start time of the record is one loadData can parse
Parseable(record) ==
    /\ ~BatchTimestamp(record.start_time, tz).skip
    /\ BatchTimestamp(record.start_time, tz).timestamp # InvalidDate

\* the records held in the bucket lists
HeldRecords(bs) ==
    {bs[o[1]].records[o[2]] :
        o \in UNION {{b} \X (1..Len(bs[b].records)) : b \in DOMAIN bs}}

\* C6: after loadData every key of a parseable input record is held exactly
\* once, by an input record of that key, nothing else is held, and
\* recordToBucket is the map reconstructed from the bucket lists
C6_LoadedOnceAndMapped ==
    dsLoaded =>
        /\ \A i \in 1..Len(dsInput) :
            Parseable(dsInput[i]) =>
                Cardinality(Occurrences(buckets, getRecordKey(dsInput[i]))) = 1
        /\ \A r \in HeldRecords(buckets) :
            \E i \in 1..Len(dsInput) : dsInput[i] = r /\ Parseable(r)
        /\ DOMAIN recordToBucket = HeldKeys(buckets)
        /\ \A k \in DOMAIN recordToBucket, b \in DOMAIN buckets :
            recordToBucket[k] = b <=> (\E o \in Occurrences(buckets, k) : o[1] = b)

\* a load of three parseable records, two of them with the same key, that
\* fills two buckets
C6_Witness ==
    /\ dsLoaded
    /\ Len(dsInput) = 3
    /\ \A i \in 1..3 : Parseable(dsInput[i])
    /\ getRecordKey(dsInput[1]) = getRecordKey(dsInput[2])
    /\ dsInput[1] # dsInput[2]
    /\ Cardinality(DOMAIN buckets) = 2
    /\ Cardinality(DOMAIN recordToBucket) = 2

\* starting from an empty DataStore, addRecordToBucket once per record
RECURSIVE OneByOne(_, _)
OneByOne(ds, records) ==
    IF Len(records) = 0 THEN ds
    ELSE OneByOne(addRecordToBucket(ds, Head(records), config, dsType, tz).ds,
                  Tail(records))

\* the member records of each bucket, as sets
Members(bs) ==
    [b \in DOMAIN bs |-> {bs[b].records[i] : i \in 1..Len(bs[b].records)}]

\* C8: loadData gives the same bucket keys and the same member records per
\* bucket as addRecordToBucket called once per record, in order, on an empty
\* DataStore
C8_LoadEqualsOneByOne ==
    dsLoaded => Members(buckets) = Members(OneByOne(EmptyStore, dsInput).buckets)

\* the key of the group of the record's own start time
OwnGroupKey(record) ==
    getGroup(config,
             createFileDate(DateOfTime(BatchTimestamp(record.start_time, tz).timestamp, tz)),
             dsType).key

\* C10: loadData puts every record in the bucket of getGroup of its own
\* start time, whatever the cycle-start offset
C10_LoadedIntoOwnGroup ==
    dsLoaded =>
        \A b \in DOMAIN buckets :
            \A i \in 1..Len(buckets[b].records) :
                OwnGroupKey(buckets[b].records[i]) = b

(***************************************************************************)
(* Specification of the QueryCache: any sequence of set, get, evictOldest  *)
(* and clear calls while the clock advances.                               *)
(***************************************************************************)
\* the clock stops at MaxNow; a hit is allowed up to MaxAccessCount times
MaxNow == 3
MaxAccessCount == 1

\* the queries whose results are cached: <<start, end>> with default options
QCWindows == {<<0, 10>>, <<0, 20>>, <<10, 20>>}
QCKeys == {getCacheKey(w[1], w[2], <<0, 0, "asc">>) : w \in QCWindows}

\* the results cached: arrays of 0, 1, 2 and 4 records
QCLengths == {0, 1, 2, 4}
QCData(n) == [i \in 1..n |-> [id |-> "1", timestamp |-> 0]]

TheCache ==
    [cache |-> cache, currentCacheSize |-> currentCacheSize,
     hotDataCache |-> hotDataCache, fullDataCache |-> fullDataCache]

\* the sum of the size fields of the entries
RECURSIVE ResidentSize(_)
ResidentSize(entries) ==
    IF Len(entries) = 0 THEN 0
    ELSE Head(entries).size + ResidentSize(Tail(entries))

\* the smallest timestamp of the entries
OldestTime(entries) ==
    CHOOSE t \in {entries[i].timestamp : i \in 1..Len(entries)} :
        \A i \in 1..Len(entries) : t <= entries[i].timestamp

\* the evictions of the loop of set: the timestamp of the entry evicted, and
\* the oldest timestamp and the total size of the entries resident before it
RECURSIVE EvictionLog(_, _)
EvictionLog(qc, dataSize) ==
    IF qc.currentCacheSize + dataSize > maxCacheSize /\ Len(qc.cache) > 0
    THEN <<[evicted |-> qc.cache[OldestIndex(qc.cache)].timestamp,
            oldest |-> OldestTime(qc.cache),
            resident |-> ResidentSize(qc.cache)]>>
         \o EvictionLog(evictOldest(qc), dataSize)
    ELSE <<>>

QCInit ==
    /\ NetIdle
    /\ tz = 0
    /\ config = DefaultConfig
    /\ ceDate = 0 /\ ceType = "day" /\ ceGroup = NoGroup
    /\ DSIdle
    /\ QCIdle
    /\ CMIdle

QCPut(qc) ==
    /\ cache' = qc.cache
    /\ currentCacheSize' = qc.currentCacheSize
    /\ hotDataCache' = qc.hotDataCache
    /\ fullDataCache' = qc.fullDataCache

QCSet ==
    /\ \E key \in QCKeys, n \in QCLengths :
        /\ QCPut(set(TheCache, key, QCData(n), now))
        /\ qcLast' = [NoCall EXCEPT
                        !.op = "set", !.key = key,
                        !.dataSize = JsonLength(QCData(n)),
                        !.unchanged = (set(TheCache, key, QCData(n), now) = TheCache),
                        !.evictions =
                            IF JsonLength(QCData(n)) > maxCacheSize THEN <<>>
                            ELSE EvictionLog(TheCache, JsonLength(QCData(n)))]
    /\ UNCHANGED <<netVars, tz, config, ceVars, dsVars, now, cmVars>>

QCGet ==
    /\ \E key \in QCKeys :
        /\ \A i \in 1..Len(cache) :
            cache[i].key = key => cache[i].accessCount < MaxAccessCount
        /\ QCPut(get(TheCache, key, now).qc)
        /\ qcLast' = [NoCall EXCEPT
                        !.op = "get", !.key = key,
                        !.hit = get(TheCache, key, now).hit]
    /\ UNCHANGED <<netVars, tz, config, ceVars, dsVars, now, cmVars>>

QCEvictOldest ==
    /\ QCPut(evictOldest(TheCache))
    /\ qcLast' = [NoCall EXCEPT !.op = "evictOldest"]
    /\ UNCHANGED <<netVars, tz, config, ceVars, dsVars, now, cmVars>>

QCClear ==
    /\ QCPut(clear(TheCache))
    /\ qcLast' = [NoCall EXCEPT !.op = "clear"]
    /\ UNCHANGED <<netVars, tz, config, ceVars, dsVars, now, cmVars>>

QCTick ==
    /\ now < MaxNow
    /\ now' = now + 1
    /\ UNCHANGED <<netVars, tz, config, ceVars, dsVars, cache, currentCacheSize,
                   hotDataCache, fullDataCache, qcLast, cmVars>>

QCNext ==
    \/ QCSet
    \/ QCGet
    \/ QCEvictOldest
    \/ QCClear
    \/ QCTick

SpecQC == QCInit /\ [][QCNext]_vars

\* C4: currentCacheSize never exceeds maxCacheSize, and a set of an entry
\* larger than maxCacheSize leaves the cache map and currentCacheSize as
\* they were
C4_SizeWithinMax ==
    /\ currentCacheSize <= maxCacheSize
    /\ (qcLast.op = "set" /\ qcLast.dataSize > maxCacheSize) => qcLast.unchanged

\* C5: every entry set evicts has the oldest last-access time of the entries
\* resident at that moment, and set evicts only while the new entry does not
\* fit beside the resident entries
C5_EvictsOldestUntilFits ==
    qcLast.op = "set" =>
        \A i \in 1..Len(qcLast.evictions) :
            /\ qcLast.evictions[i].evicted = qcLast.evictions[i].oldest
            /\ qcLast.evictions[i].resident + qcLast.dataSize > maxCacheSize

(***************************************************************************)
(* Specification of the data path of CacheManager: updateRecord,           *)
(* batchUpdateRecords, appendData, deleteRecord and                        *)
(* queryDateRangeOptimized, called at any time, from at most MaxSlots      *)
(* callers at once, on a database whose partitions 2024_Q1 and 2024_Q2     *)
(* are registered and created.  A step is a call as far as its first       *)
(* await of a database event, or the handler of such an event with the     *)
(* code it resumes.                                                        *)
(***************************************************************************)
MaxCMCalls == 4

\* the slots the callers of this run have
Slots == DOMAIN calls

TheCM ==
    [partitions |-> partitions, stores |-> stores, diskVersion |-> diskVersion,
     db |-> db, dbVersion |-> dbVersion, openQueue |-> openQueue, leaked |-> leaked,
     createPartitionLock |-> createPartitionLock,
     partitionCreatedCache |-> partitionCreatedCache,
     queryCache |-> TheCache, calls |-> calls, txq |-> txq, changed |-> changed,
     meta |-> meta, now |-> now]

CMSet(st) ==
    /\ partitions' = st.partitions
    /\ stores' = st.stores
    /\ diskVersion' = st.diskVersion
    /\ db' = st.db
    /\ dbVersion' = st.dbVersion
    /\ openQueue' = st.openQueue
    /\ leaked' = st.leaked
    /\ createPartitionLock' = st.createPartitionLock
    /\ partitionCreatedCache' = st.partitionCreatedCache
    /\ calls' = st.calls
    /\ txq' = st.txq
    /\ changed' = st.changed
    /\ meta' = st.meta
    /\ QCPut(st.queryCache)
    /\ UNCHANGED <<tz, config, ceVars, dsVars, now, qcLast>>

CMPut(st) == CMSet(st) /\ UNCHANGED netVars

\* a caller begins a call
CMCall(st) == CMPut(st) /\ cmCalls' = cmCalls + 1

\* an event handler runs
CMStep(st) == CMPut(st) /\ UNCHANGED cmCalls

\* the slot a new call takes: the first that holds no call in flight
FreeSlots == {s \in Slots : ~InFlight(calls[s])}
IsFirstFree(s, taken) ==
    /\ s \in FreeSlots \ taken
    /\ \A r \in FreeSlots \ taken : s <= r

CMRec(id, start_time) == [id |-> id, start_time |-> start_time, timestamp |-> InvalidDate]

Q1_2024 == <<2024, 1>>
Q2_2024 == <<2024, 2>>

Feb01 == MkDate(2024, 1, 1, 0, 0)
Mar01 == MkDate(2024, 2, 1, 0, 0)
May01 == MkDate(2024, 4, 1, 0, 0)

CMRecords == {CMRec("5", Feb01), CMRec("5", May01), CMRec("6", Mar01)}

CMLists ==
    {<<CMRec("5", Feb01)>>, <<CMRec("5", May01)>>,
     <<CMRec("6", Mar01), CMRec("5", May01)>>}

CMWindows ==
    {<<MkDate(2024, 0, 1, 0, 0), MkDate(2024, 5, 30, 0, 0)>>,
     <<MkDate(2024, 0, 1, 0, 0), MkDate(2024, 2, 31, 0, 0)>>}

CMInit ==
    /\ NetIdle
    /\ tz \in TimeZones
    /\ config = DefaultConfig
    /\ ceDate = 0 /\ ceType = "day" /\ ceGroup = NoGroup
    /\ DSIdle
    /\ QCIdle
    /\ partitions = <<Q1_2024, Q2_2024>>
    /\ stores = [p \in {Q1_2024, Q2_2024} |-> EmptyMap]
    /\ diskVersion = 2
    /\ db = [version |-> 2, names |-> {Q1_2024, Q2_2024}, closed |-> FALSE]
    /\ dbVersion = 2
    /\ openQueue = <<>>
    /\ leaked = 0
    /\ createPartitionLock = FALSE
    /\ partitionCreatedCache = {}
    /\ calls = [s \in 1..MaxSlots |-> IdleFrame]
    /\ txq = <<>>
    /\ changed = {}
    /\ meta = NoMeta
    /\ cmCalls = 0

CMUpdateRecord ==
    /\ cmCalls < MaxCMCalls
    /\ \E s \in Slots, record \in CMRecords :
        /\ IsFirstFree(s, {})
        /\ CMCall(cmUpdateRecord(TheCM, s, record, tz))

CMBatchUpdateRecords ==
    /\ cmCalls < MaxCMCalls
    /\ \E s \in Slots, records \in CMLists :
        /\ IsFirstFree(s, {})
        /\ CMCall(cmBatchUpdateRecords(TheCM, s, records, tz))

CMAppendData ==
    /\ cmCalls < MaxCMCalls
    /\ \E s \in Slots, b \in Slots, newRecords \in CMLists :
        /\ IsFirstFree(s, {})
        /\ IsFirstFree(b, {s})
        /\ CMCall(cmAppendData(TheCM, s, b, newRecords, tz))

CMDeleteRecord ==
    /\ cmCalls < MaxCMCalls
    /\ \E s \in Slots, recordId \in {"5", "6"} :
        /\ IsFirstFree(s, {})
        /\ CMCall(cmDeleteRecord(TheCM, s, recordId, InvalidDate, tz))

CMQueryDateRangeOptimized ==
    /\ cmCalls < MaxCMCalls
    /\ \E s \in Slots, w \in CMWindows :
        /\ IsFirstFree(s, {})
        /\ CMCall(queryDateRangeOptimized(TheCM, s, w[1], w[2], DefaultOptions, tz))

\* the transaction txq[i] runs, for a call suspended at pc
TxOf(i, ops, pc) ==
    /\ Runnable(txq, i)
    /\ calls[txq[i].slot].op \in ops
    /\ calls[txq[i].slot].pc = pc

CMUpdatePut ==
    /\ Len(txq) > 0
    /\ \E i \in 1..Len(txq) :
        /\ TxOf(i, {"updateRecord"}, "put")
        /\ CMStep(UpdatePut(TheCM, i, txq[i].slot))

CMBatchComplete ==
    /\ Len(txq) > 0
    /\ \E i \in 1..Len(txq) :
        /\ TxOf(i, {"batchUpdateRecords"}, "updatePartitionBatch")
        /\ CMStep(BatchComplete(TheCM, i, txq[i].slot, tz))

CMDeleteStep ==
    /\ Len(txq) > 0
    /\ \E i \in 1..Len(txq) :
        /\ TxOf(i, {"deleteRecord"}, calls[txq[i].slot].pc)
        /\ CMStep(DeleteStep(TheCM, i, txq[i].slot))

CMWriteComplete ==
    /\ Len(txq) > 0
    /\ \E i \in 1..Len(txq) :
        /\ TxOf(i, {"appendData", "writeToPartitionTables"}, "storePartitionedBatch")
        /\ CMStep(WriteComplete(TheCM, i, txq[i].slot))

CMQueryRead ==
    /\ Len(txq) > 0
    /\ \E i \in 1..Len(txq) :
        /\ TxOf(i, {"queryDateRangeOptimized"}, "queryPartitionOptimized")
        /\ CMStep(QueryRead(TheCM, i, txq[i].slot, tz))

CMNext ==
    \/ CMUpdateRecord
    \/ CMBatchUpdateRecords
    \/ CMAppendData
    \/ CMDeleteRecord
    \/ CMQueryDateRangeOptimized
    \/ CMUpdatePut
    \/ CMBatchComplete
    \/ CMDeleteStep
    \/ CMWriteComplete
    \/ CMQueryRead

SpecCM == CMInit /\ [][CMNext]_vars

Quiescent == \A s \in Slots : ~InFlight(calls[s])

StoresHolding(id) == {p \in DOMAIN stores : id \in DOMAIN stores[p]}

\* C1: when no call is in flight, every record id is in at most one
\* partition store, and that store is the partition of the quarter of the
\* start time the stored record has.
C1_OnePartitionPerRecord ==
    Quiescent =>
        \A p \in DOMAIN stores : \A id \in DOMAIN stores[p] :
            /\ StoresHolding(id) = {p}
            /\ PartitionOfTimestamp(parseTimeToTimestamp(stores[p][id].start_time, tz), tz) = p

\* C2: a queryDateRangeOptimized with useCache true that began after a
\* write had completed and changed a record of its window, with no write
\* call in flight while it ran, returned what the partitions held.
C2_QueryReflectsCompletedWrites ==
    \A s \in Slots :
        (/\ calls[s].op = "queryDateRangeOptimized"
         /\ calls[s].pc = "done"
         /\ calls[s].opts.useCache
         /\ calls[s].covers
         /\ calls[s].quiet)
        => calls[s].ret.data = calls[s].expect

(***************************************************************************)
(* Specification of the schema migrations of CacheManager: ensurePartition,*)
(* ensurePartitionsExist, storeAllData and appendData, called at any time, *)
(* from at most MaxSlots callers at once, on the database as init() found  *)
(* it the first time: no partition registered, none created.               *)
(***************************************************************************)
MaxMGCalls == 3
MaxMGSlots == 3

MGRecords == {CMRec("1", Feb01), CMRec("2", May01)}

MGLists == {<<CMRec("1", Feb01)>>, <<CMRec("2", May01)>>,
            <<CMRec("2", May01), CMRec("1", Feb01)>>}

MGInit ==
    /\ NetIdle
    /\ tz = 0
    /\ config = DefaultConfig
    /\ ceDate = 0 /\ ceType = "day" /\ ceGroup = NoGroup
    /\ DSIdle
    /\ QCIdle
    /\ calls = [s \in 1..MaxMGSlots |-> IdleFrame]
    /\ CMFresh

MGEnsurePartition ==
    /\ cmCalls < MaxMGCalls
    /\ \E s \in Slots, partitionId \in {Q1_2024, Q2_2024} :
        /\ IsFirstFree(s, {})
        /\ CMCall(ensurePartition(TheCM, s, partitionId))

MGEnsurePartitionsExist ==
    /\ cmCalls < MaxMGCalls
    /\ \E s \in Slots :
        /\ IsFirstFree(s, {})
        /\ CMCall(EnsureAwaited(
                      ensurePartitionsExist(
                          Begin(TheCM, s, [IdleFrame EXCEPT !.op = "ensurePartitionsExist"]),
                          s),
                      s))

MGStoreAllData ==
    /\ cmCalls < MaxMGCalls
    /\ \E s \in Slots, allData \in MGLists :
        /\ IsFirstFree(s, {})
        /\ CMCall(cmStoreAllData(TheCM, s, allData))

MGAppendData ==
    /\ cmCalls < MaxMGCalls
    /\ \E s \in Slots, b \in Slots, newRecords \in MGLists :
        /\ IsFirstFree(s, {})
        /\ IsFirstFree(b, {s})
        /\ CMCall(cmAppendData(TheCM, s, b, newRecords, tz))

\* the open request at the head of the queue succeeds or fails
MGOpenSettle ==
    /\ CanSettle(TheCM)
    /\ CMStep(OpenSettled(TheCM))

\* the timer of the poll of createPartitionLock fires once the lock is free
MGEnsureWake ==
    /\ ~createPartitionLock
    /\ \E s \in Slots :
        /\ calls[s].op = "ensurePartition"
        /\ calls[s].pc = "setTimeout"
        /\ CMStep(EnsureWait(TheCM, s))

MGClearComplete ==
    /\ Len(txq) > 0
    /\ \E i \in 1..Len(txq) :
        /\ TxOf(i, {"storeAllData"}, "clearAllData")
        /\ CMStep(ClearComplete(TheCM, i, txq[i].slot, tz))

MGStoreComplete ==
    /\ Len(txq) > 0
    /\ \E i \in 1..Len(txq) :
        /\ TxOf(i, {"storeAllData"}, "storePartitionedBatch")
        /\ CMStep(StoreComplete(TheCM, i, txq[i].slot))

\* the timer of setTimeout(0) fires
MGStoreYield ==
    /\ \E s \in Slots :
        /\ calls[s].op = "storeAllData"
        /\ calls[s].pc = "setTimeout"
        /\ CMStep(StoreGroups(TheCM, s))

MGMetaComplete ==
    /\ Len(txq) > 0
    /\ \E i \in 1..Len(txq) :
        /\ TxOf(i, {"storeAllData"}, "saveMetadataAndShardIndex")
        /\ CMStep(MetaComplete(TheCM, i, txq[i].slot))

MGNext ==
    \/ MGEnsurePartition
    \/ MGEnsurePartitionsExist
    \/ MGStoreAllData
    \/ MGAppendData
    \/ MGOpenSettle
    \/ MGEnsureWake
    \/ MGClearComplete
    \/ MGStoreComplete
    \/ MGStoreYield
    \/ MGMetaComplete
    \/ CMWriteComplete

SpecMig == MGInit /\ [][MGNext]_vars

\* C3: at most one open request of a migration is unsettled at any time.
C3_OneMigrationInFlight == Len(openQueue) <= 1

(***************************************************************************)
(* Specification of the routing of writes: storeAllData, appendData,       *)
(* batchUpdateRecords and updateRecord, called one after another on a      *)
(* database with both quarters registered and created, with records whose  *)
(* timestamp field is absent, agrees with start_time, or was stored for    *)
(* an earlier start_time.                                                  *)
(***************************************************************************)
MaxRTCalls == 2

RTRec(id, start_time, stamped) ==
    [id |-> id, start_time |-> start_time,
     timestamp |-> parseTimeToTimestamp(stamped, tz)]

RTRecords ==
    {CMRec("5", Feb01), CMRec("5", May01),
     RTRec("5", May01, May01), RTRec("5", May01, Feb01),
     RTRec("5", Feb01, May01)}

RTUpdateRecord ==
    /\ cmCalls < MaxRTCalls
    /\ Quiescent
    /\ \E s \in Slots, record \in RTRecords :
        /\ IsFirstFree(s, {})
        /\ CMCall(cmUpdateRecord(TheCM, s, record, tz))

RTBatchUpdateRecords ==
    /\ cmCalls < MaxRTCalls
    /\ Quiescent
    /\ \E s \in Slots, record \in RTRecords :
        /\ IsFirstFree(s, {})
        /\ CMCall(cmBatchUpdateRecords(TheCM, s, <<record>>, tz))

RTAppendData ==
    /\ cmCalls < MaxRTCalls
    /\ Quiescent
    /\ \E s \in Slots, b \in Slots, record \in RTRecords :
        /\ IsFirstFree(s, {})
        /\ IsFirstFree(b, {s})
        /\ CMCall(cmAppendData(TheCM, s, b, <<record>>, tz))

RTStoreAllData ==
    /\ cmCalls < MaxRTCalls
    /\ Quiescent
    /\ \E s \in Slots, record \in RTRecords :
        /\ IsFirstFree(s, {})
        /\ CMCall(cmStoreAllData(TheCM, s, <<record>>))

RTNext ==
    \/ RTUpdateRecord
    \/ RTBatchUpdateRecords
    \/ RTAppendData
    \/ RTStoreAllData
    \/ CMUpdatePut
    \/ CMBatchComplete
    \/ CMWriteComplete
    \/ MGClearComplete
    \/ MGStoreComplete
    \/ MGStoreYield
    \/ MGMetaComplete

SpecRoute == CMInit /\ [][RTNext]_vars

\* C11: every record a write path has put in a partition store is in the
\* partition of the quarter of its own start time, whatever its timestamp
\* field held when it was written.
C11_RoutedByStartTimeOnly ==
    \A p \in DOMAIN stores : \A id \in DOMAIN stores[p] :
        PartitionOfTimestamp(parseTimeToTimestamp(stores[p][id].start_time, tz), tz) = p

(***************************************************************************)
(* Specification of the record writes of CacheManager: updateRecord,       *)
(* batchUpdateRecords and appendData, with range queries, called at any    *)
(* time on a database where 2024_Q1 is registered and created and 2024_Q2  *)
(* is neither, as after storeAllData of records of the first quarter.      *)
(***************************************************************************)
MaxWRCalls == 4

WRRecords == {CMRec("5", Feb01), CMRec("6", May01)}

WRLists == {<<CMRec("5", Feb01)>>, <<CMRec("6", May01)>>,
            <<CMRec("5", Feb01), CMRec("6", May01)>>}

WRInit ==
    /\ NetIdle
    /\ tz \in TimeZones
    /\ config = DefaultConfig
    /\ ceDate = 0 /\ ceType = "day" /\ ceGroup = NoGroup
    /\ DSIdle
    /\ QCIdle
    /\ partitions = <<Q1_2024>>
    /\ stores = [p \in {Q1_2024} |-> EmptyMap]
    /\ diskVersion = 2
    /\ db = [version |-> 2, names |-> {Q1_2024}, closed |-> FALSE]
    /\ dbVersion = 2
    /\ openQueue = <<>>
    /\ leaked = 0
    /\ createPartitionLock = FALSE
    /\ partitionCreatedCache = {}
    /\ calls = [s \in 1..MaxMGSlots |-> IdleFrame]
    /\ txq = <<>>
    /\ changed = {}
    /\ meta = NoMeta
    /\ cmCalls = 0

WRUpdateRecord ==
    /\ cmCalls < MaxWRCalls
    /\ \E s \in Slots, record \in WRRecords :
        /\ IsFirstFree(s, {})
        /\ CMCall(cmUpdateRecord(TheCM, s, record, tz))

WRBatchUpdateRecords ==
    /\ cmCalls < MaxWRCalls
    /\ \E s \in Slots, records \in WRLists :
        /\ IsFirstFree(s, {})
        /\ CMCall(cmBatchUpdateRecords(TheCM, s, records, tz))

WRAppendData ==
    /\ cmCalls < MaxWRCalls
    /\ \E s \in Slots, b \in Slots, newRecords \in WRLists :
        /\ IsFirstFree(s, {})
        /\ IsFirstFree(b, {s})
        /\ CMCall(cmAppendData(TheCM, s, b, newRecords, tz))

WRQueryDateRangeOptimized ==
    /\ cmCalls < MaxWRCalls
    /\ \E s \in Slots :
        /\ IsFirstFree(s, {})
        /\ CMCall(queryDateRangeOptimized(TheCM, s, MkDate(2024, 0, 1, 0, 0),
                                          MkDate(2024, 5, 30, 0, 0), DefaultOptions, tz))

WRNext ==
    \/ WRUpdateRecord
    \/ WRBatchUpdateRecords
    \/ WRAppendData
    \/ WRQueryDateRangeOptimized
    \/ CMUpdatePut
    \/ CMBatchComplete
    \/ CMWriteComplete
    \/ CMQueryRead
    \/ MGOpenSettle

SpecWrite == WRInit /\ [][WRNext]_vars

\* C12: the count appendData returns is the number of records it had put
\* in partition stores when it returned; records left to the write that
\* follows a migration are not counted.
C12_AppendCountsWrittenRecords ==
    \A s \in Slots :
        (/\ calls[s].op = "appendData"
         /\ calls[s].pc = "done"
         /\ calls[s].ret.kind = "returned")
        => calls[s].ret.n = calls[s].written

\* C13: an updateRecord, batchUpdateRecords or appendData that ended
\* without having put a record of its input in a store rejected.
C13_LostWriteRejects ==
    \A s \in Slots :
        (/\ calls[s].op \in {"updateRecord", "batchUpdateRecords", "appendData"}
         /\ calls[s].pc = "done"
         /\ calls[s].lost > 0)
        => calls[s].ret.kind = "rejected"

\* C14: an updateRecord whose target partition is not registered or not
\* created returns false and leaves every partition store and every layer
\* of the QueryCache as they were; one whose target partition is created
\* puts the record under its id in that store, clears the QueryCache and
\* returns true.
C14_UpdateRecordOutcome ==
    [][\A s \in Slots :
          (/\ calls'[s].op = "updateRecord"
           /\ calls'[s].pc = "done"
           /\ \/ calls[s].op = "updateRecord" /\ calls[s].pc = "put"
              \/ cmCalls' # cmCalls /\ IsFirstFree(s, {}))
          => IF calls'[s].ready
             THEN /\ calls[s].pc = "put"
                  /\ calls'[s].ret = Returned(TRUE, 0, <<>>)
                  /\ stores' = [stores EXCEPT ![calls[s].todo[1]] =
                                   MapSet(@, calls[s].recs[1].id, calls[s].recs[1])]
                  /\ cache' = <<>>
                  /\ currentCacheSize' = 0
                  /\ hotDataCache' = NoHotData
                  /\ fullDataCache' = NoFullData
             ELSE /\ calls'[s].ret = Returned(FALSE, 0, <<>>)
                  /\ UNCHANGED <<stores, cache, currentCacheSize,
                                 hotDataCache, fullDataCache>>
      ]_vars

(***************************************************************************)
(* Specification of the bulk writes of CacheManager and the metadata       *)
(* record: storeAllData, appendData and batchUpdateRecords, called one     *)
(* after the other while time passes, on a database that an earlier        *)
(* storeAllData left with one record in 2024_Q1; the CacheManager either   *)
(* is the one that made that call or was constructed afterwards, on a      *)
(* reload of the page, and has no partition registered.                    *)
(***************************************************************************)
MaxSTCalls == 3
MaxSTNow == 2

STLists ==
    {<<>>,
     <<CMRec("1", Feb01)>>,
     <<CMRec("2", May01)>>,
     <<CMRec("2", May01), CMRec("1", Mar01)>>,
     <<CMRec("5", InvalidDate), CMRec("2", May01)>>}

STInit ==
    /\ NetIdle
    /\ tz \in TimeZones
    /\ config = DefaultConfig
    /\ ceDate = 0 /\ ceType = "day" /\ ceGroup = NoGroup
    /\ DSIdle
    /\ QCIdle
    /\ partitions \in {<<>>, <<Q1_2024>>}
    /\ stores = [p \in {Q1_2024} |->
                    MapSet(EmptyMap, "1", StampRecord(CMRec("1", Feb01), tz))]
    /\ diskVersion = 2
    /\ db = [version |-> 2, names |-> {Q1_2024}, closed |-> FALSE]
    /\ dbVersion = 2
    /\ openQueue = <<>>
    /\ leaked = 0
    /\ createPartitionLock = FALSE
    /\ partitionCreatedCache = {}
    /\ calls = [s \in 1..MaxSlots |-> IdleFrame]
    /\ txq = <<>>
    /\ changed = {}
    /\ meta = MetaRecord(1, 0)
    /\ cmCalls = 0

STStoreAllData ==
    /\ cmCalls < MaxSTCalls
    /\ Quiescent
    /\ \E s \in Slots, allData \in STLists :
        /\ IsFirstFree(s, {})
        /\ CMCall(cmStoreAllData(TheCM, s, allData))

STAppendData ==
    /\ cmCalls < MaxSTCalls
    /\ Quiescent
    /\ \E s \in Slots, b \in Slots, newRecords \in STLists :
        /\ IsFirstFree(s, {})
        /\ IsFirstFree(b, {s})
        /\ CMCall(cmAppendData(TheCM, s, b, newRecords, tz))

STBatchUpdateRecords ==
    /\ cmCalls < MaxSTCalls
    /\ Quiescent
    /\ \E s \in Slots, records \in STLists :
        /\ IsFirstFree(s, {})
        /\ CMCall(cmBatchUpdateRecords(TheCM, s, records, tz))

\* time passes
STTick ==
    /\ now < MaxSTNow
    /\ now' = now + 1
    /\ UNCHANGED <<netVars, tz, config, ceVars, dsVars, cache, currentCacheSize,
                   hotDataCache, fullDataCache, qcLast, cmVars>>

STNext ==
    \/ STStoreAllData
    \/ STAppendData
    \/ STBatchUpdateRecords
    \/ STTick
    \/ MGOpenSettle
    \/ MGClearComplete
    \/ MGStoreComplete
    \/ MGStoreYield
    \/ MGMetaComplete
    \/ CMWriteComplete
    \/ CMBatchComplete

SpecStore == STInit /\ [][STNext]_vars

\* the records of a list that have a usable start time
Usable(records) ==
    SelectSeq(records, LAMBDA r : Truthy(parseTimeToTimestamp(r.start_time, tz)))

RECURSIVE HeldCount(_, _)
HeldCount(held, ids) ==
    IF ids = {} THEN 0
    ELSE (LET p == CHOOSE q \in ids : TRUE
          IN  Cardinality(DOMAIN held[p]) + HeldCount(held, ids \ {p}))

\* the step in which the call in slot s returns
Returns(s, ops) ==
    /\ calls'[s].op \in ops
    /\ calls'[s].pc = "done"
    /\ calls'[s].ret.kind = "returned"
    /\ \/ InFlight(calls[s]) /\ calls[s].op = calls'[s].op
       \/ cmCalls' # cmCalls /\ IsFirstFree(s, {})

\* C15: when storeAllData returns, every partition store, registered in
\* memory or not, holds only records of the input, each with a usable
\* start time and in the partition of the quarter of that start time;
\* every input record with a usable start time is in a store; and the
\* count returned is the number of records the stores hold.
C15_StoreHoldsExactlyTheInput ==
    [][\A s \in Slots :
          Returns(s, {"storeAllData"}) =>
              /\ \A p \in DOMAIN stores' : \A id \in DOMAIN stores'[p] :
                    \E i \in 1..Len(Usable(calls[s].input)) :
                        /\ Usable(calls[s].input)[i].id = id
                        /\ Usable(calls[s].input)[i].start_time = stores'[p][id].start_time
                        /\ PartitionOfTimestamp(
                               parseTimeToTimestamp(stores'[p][id].start_time, tz), tz) = p
              /\ \A i \in 1..Len(Usable(calls[s].input)) :
                    \E p \in DOMAIN stores' : Usable(calls[s].input)[i].id \in DOMAIN stores'[p]
              /\ calls'[s].ret.n = HeldCount(stores', DOMAIN stores')
      ]_vars

\* C16: when storeAllData, appendData or batchUpdateRecords returns, the
\* metadata record holds as totalCount the number of records in the
\* partition stores, and lastUpdated and lastSyncTime are not older than
\* the call.
C16_MetadataFollowsWrites ==
    [][\A s \in Slots :
          Returns(s, {"storeAllData", "appendData", "batchUpdateRecords"}) =>
              /\ meta'.key = "allDataMeta"
              /\ meta'.totalCount = HeldCount(stores', DOMAIN stores')
              /\ meta'.lastUpdated >= calls'[s].began
              /\ meta'.lastSyncTime >= calls'[s].began
      ]_vars

(***************************************************************************)
(* Specification of the expiry of the query results of QueryCache: set,    *)
(* get and clear called at any time while time passes.  The result handed  *)
(* to set at time t is a list of records of timestamp t, so that a result  *)
(* tells when it was stored.                                               *)
(***************************************************************************)
MaxTTNow == 3
MaxTTAccess == 2

TTKeys == {getCacheKey(0, 10, <<0, 0, "asc">>), getCacheKey(0, 20, <<0, 0, "asc">>)}

TTData(n, t) == [i \in 1..n |-> [id |-> "1", timestamp |-> t]]

TTSet ==
    /\ \E key \in TTKeys, n \in {1, 2} :
        /\ QCPut(set(TheCache, key, TTData(n, now), now))
        /\ qcLast' = [NoCall EXCEPT !.op = "set", !.key = key,
                                    !.dataSize = JsonLength(TTData(n, now)),
                                    !.data = TTData(n, now)]
    /\ UNCHANGED <<netVars, tz, config, ceVars, dsVars, now, cmVars>>

TTGet ==
    /\ \E key \in TTKeys :
        /\ \A i \in 1..Len(cache) :
            cache[i].key = key => cache[i].accessCount < MaxTTAccess
        /\ QCPut(get(TheCache, key, now).qc)
        /\ qcLast' = [NoCall EXCEPT !.op = "get", !.key = key,
                                    !.hit = get(TheCache, key, now).hit,
                                    !.data = get(TheCache, key, now).data]
    /\ UNCHANGED <<netVars, tz, config, ceVars, dsVars, now, cmVars>>

TTClear ==
    /\ QCPut(clear(TheCache))
    /\ qcLast' = [NoCall EXCEPT !.op = "clear"]
    /\ UNCHANGED <<netVars, tz, config, ceVars, dsVars, now, cmVars>>

TTTick ==
    /\ now < MaxTTNow
    /\ now' = now + 1
    /\ UNCHANGED <<netVars, tz, config, ceVars, dsVars, cache, currentCacheSize,
                   hotDataCache, fullDataCache, qcLast, cmVars>>

TTNext ==
    \/ TTSet
    \/ TTGet
    \/ TTClear
    \/ TTTick

SpecTTL == QCInit /\ [][TTNext]_vars

\* C18: a get of a key whose entry holds data that set stored more than
\* cacheTTL earlier is a miss, removes the entry and subtracts its size
\* from currentCacheSize; a get of any other cached key returns the data
\* stored and adds one to the access count of the entry.
C18_GetHonoursTTLSinceSet ==
    [][\A key \in TTKeys :
          (/\ qcLast'.op = "get"
           /\ qcLast'.key = key
           /\ now' = now
           /\ CacheIndex(cache, key) # 0)
          => IF now - cache[CacheIndex(cache, key)].data[1].timestamp > cacheTTL
             THEN /\ ~qcLast'.hit
                  /\ CacheIndex(cache', key) = 0
                  /\ currentCacheSize' =
                         currentCacheSize - cache[CacheIndex(cache, key)].size
             ELSE /\ qcLast'.hit
                  /\ qcLast'.data = cache[CacheIndex(cache, key)].data
                  /\ cache'[CacheIndex(cache', key)].accessCount =
                         cache[CacheIndex(cache, key)].accessCount + 1
      ]_vars

(***************************************************************************)
(* Specification of the hot-window slot and the full-dataset slot of       *)
(* QueryCache: the slots are filled, read and cleared at any time while    *)
(* time passes.                                                            *)
(***************************************************************************)
MaxSLNow == 4

\* the window preloadHotData loads
SLHotWindow == <<0, 20>>

SLPreloadHotData ==
    /\ \E n \in {0, 1, 2} :
        /\ QCPut(setHotData(TheCache, TTData(n, now), SLHotWindow[1], SLHotWindow[2], now))
        /\ qcLast' = [NoCall EXCEPT !.op = "preloadHotData", !.data = TTData(n, now)]
    /\ UNCHANGED <<netVars, tz, config, ceVars, dsVars, now, cmVars>>

SLFilterFromHotData ==
    /\ \E w \in QCWindows :
        /\ qcLast' = [NoCall EXCEPT
                        !.op = "filterFromHotData",
                        !.key = <<w[1], w[2]>>,
                        !.hit = canUseHotData(TheCache, w[1], w[2]),
                        !.data = IF canUseHotData(TheCache, w[1], w[2])
                                 THEN filterFromHotData(TheCache, w[1], w[2])
                                 ELSE <<>>]
    /\ UNCHANGED <<netVars, tz, config, ceVars, dsVars, cache, currentCacheSize,
                   hotDataCache, fullDataCache, now, cmVars>>

SLSetFullDataCache ==
    /\ \E n \in {0, 1, 2} :
        /\ QCPut(setFullDataCache(TheCache, TTData(n, now), now))
        /\ qcLast' = [NoCall EXCEPT !.op = "setFullDataCache", !.data = TTData(n, now)]
    /\ UNCHANGED <<netVars, tz, config, ceVars, dsVars, now, cmVars>>

SLGetFullDataCache ==
    /\ QCPut(getFullDataCache(TheCache, now).qc)
    /\ qcLast' = [NoCall EXCEPT !.op = "getFullDataCache",
                                !.hit = getFullDataCache(TheCache, now).hit,
                                !.data = getFullDataCache(TheCache, now).data]
    /\ UNCHANGED <<netVars, tz, config, ceVars, dsVars, now, cmVars>>

SLClear ==
    /\ QCPut(clear(TheCache))
    /\ qcLast' = [NoCall EXCEPT !.op = "clear"]
    /\ UNCHANGED <<netVars, tz, config, ceVars, dsVars, now, cmVars>>

SLTick ==
    /\ now < MaxSLNow
    /\ now' = now + 1
    /\ UNCHANGED <<netVars, tz, config, ceVars, dsVars, cache, currentCacheSize,
                   hotDataCache, fullDataCache, qcLast, cmVars>>

SLNext ==
    \/ SLPreloadHotData
    \/ SLFilterFromHotData
    \/ SLSetFullDataCache
    \/ SLGetFullDataCache
    \/ SLClear
    \/ SLTick

SpecSlots == QCInit /\ [][SLNext]_vars

\* C19: filterFromHotData returns null when the hot-window slot was filled
\* more than cacheTTL ago, and getFullDataCache returns null when the
\* full-dataset slot was.
C19_SlotsAreTTLGated ==
    [][/\ (/\ qcLast'.op = "filterFromHotData"
           /\ now' = now
           /\ hotDataCache.set
           /\ now - hotDataCache.timestamp > cacheTTL) => ~qcLast'.hit
       /\ (/\ qcLast'.op = "getFullDataCache"
           /\ now' = now
           /\ fullDataCache.set
           /\ now - fullDataCache.timestamp > cacheTTL) => ~qcLast'.hit
      ]_vars

(***************************************************************************)
(* Specification of deleteRecord: updateRecord, deleteRecord and range     *)
(* queries called one after the other on a database with 2024_Q1 and       *)
(* 2024_Q2 created, record 6 stored in 2024_Q2, and either both partitions *)
(* registered or, the page having been reloaded since 2024_Q2 was          *)
(* written, only 2024_Q1.                                                  *)
(***************************************************************************)
MaxDLCalls == 3

DLInit ==
    /\ NetIdle
    /\ tz \in TimeZones
    /\ config = DefaultConfig
    /\ ceDate = 0 /\ ceType = "day" /\ ceGroup = NoGroup
    /\ DSIdle
    /\ QCIdle
    /\ partitions \in {<<Q1_2024, Q2_2024>>, <<Q1_2024>>}
    /\ stores = [p \in {Q1_2024, Q2_2024} |->
                    IF p = Q2_2024
                    THEN MapSet(EmptyMap, "6", StampRecord(CMRec("6", May01), tz))
                    ELSE EmptyMap]
    /\ diskVersion = 2
    /\ db = [version |-> 2, names |-> {Q1_2024, Q2_2024}, closed |-> FALSE]
    /\ dbVersion = 2
    /\ openQueue = <<>>
    /\ leaked = 0
    /\ createPartitionLock = FALSE
    /\ partitionCreatedCache = {}
    /\ calls = [s \in 1..MaxSlots |-> IdleFrame]
    /\ txq = <<>>
    /\ changed = {}
    /\ meta = MetaRecord(1, 0)
    /\ cmCalls = 0

DLUpdateRecord ==
    /\ cmCalls < MaxDLCalls
    /\ Quiescent
    /\ \E s \in Slots, record \in {CMRec("5", Feb01), CMRec("5", May01)} :
        /\ IsFirstFree(s, {})
        /\ CMCall(cmUpdateRecord(TheCM, s, record, tz))

DLDeleteRecord ==
    /\ cmCalls < MaxDLCalls
    /\ Quiescent
    /\ \E s \in Slots, recordId \in {"5", "6"},
          recordTimestamp \in {InvalidDate, GetTime(Feb01, tz), GetTime(May01, tz)} :
        /\ IsFirstFree(s, {})
        /\ CMCall(cmDeleteRecord(TheCM, s, recordId, recordTimestamp, tz))

DLQueryDateRangeOptimized ==
    /\ cmCalls < MaxDLCalls
    /\ Quiescent
    /\ \E s \in Slots :
        /\ IsFirstFree(s, {})
        /\ CMCall(queryDateRangeOptimized(TheCM, s, MkDate(2024, 0, 1, 0, 0),
                                          MkDate(2024, 5, 30, 0, 0), DefaultOptions, tz))

DLNext ==
    \/ DLUpdateRecord
    \/ DLDeleteRecord
    \/ DLQueryDateRangeOptimized
    \/ CMUpdatePut
    \/ CMDeleteStep
    \/ CMQueryRead

SpecDelete == DLInit /\ [][DLNext]_vars

\* C20: when deleteRecord(id) resolves with the id, no partition store
\* holds a record of that id; when it resolves with null, no partition
\* store held one, and no store and no layer of the QueryCache changes.
C20_DeleteRemovesEveryCopy ==
    [][\A s \in Slots :
          (/\ calls[s].op = "deleteRecord"
           /\ InFlight(calls[s])
           /\ calls'[s].pc = "done"
           /\ calls'[s].ret.kind = "returned")
          => IF calls'[s].ret.ok
             THEN \A p \in DOMAIN stores' : calls[s].id \notin DOMAIN stores'[p]
             ELSE /\ \A p \in DOMAIN stores : calls[s].id \notin DOMAIN stores[p]
                  /\ UNCHANGED <<stores, cache, currentCacheSize,
                                 hotDataCache, fullDataCache>>
      ]_vars

(***************************************************************************)
(* CacheManager.getAllDataFast with queryPartitionFast                     *)
(***************************************************************************)
\* store.getAll(): the records in the order of their keys
GetAllKeys(store) == SelectSeq(Keys, LAMBDA k : k \in DOMAIN store)
GetAll(store) == [i \in 1..Len(GetAllKeys(store)) |-> store[GetAllKeys(store)[i]]]

\* a.timestamp || 0
TimestampOrZero(record) == IF Truthy(record.timestamp) THEN record.timestamp ELSE 0

\* allData.sort((a, b) => (a.timestamp || 0) - (b.timestamp || 0)), stable
InsertFast(sorted, r) ==
    SelectSeq(sorted, LAMBDA x : TimestampOrZero(x) <= TimestampOrZero(r)) \o <<r>>
    \o SelectSeq(sorted, LAMBDA x : TimestampOrZero(x) > TimestampOrZero(r))

RECURSIVE SortFast(_, _)
SortFast(data, sorted) ==
    IF Len(data) = 0 THEN sorted
    ELSE SortFast(Tail(data), InsertFast(sorted, Head(data)))

\* sort, setFullDataCache and return
FastSorted(st, s, allData) ==
    Finish([st EXCEPT !.queryCache = setFullDataCache(@, allData, st.now)],
           s, Returned(TRUE, Len(allData), allData))

\* the loop over the batches of 4 partitions from the batch that begins todo
RECURSIVE FastBatches(_, _)
FastGathered(st, s) ==
    FastBatches([st EXCEPT !.calls[s].acc = @ \o Flat(st.calls[s].batch, st.calls[s].got),
                           !.calls[s].batch = <<>>,
                           !.calls[s].got = EmptyMap],
                s)

FastStarted(st, s) ==
    IF st.calls[s].pend = {} THEN FastGathered(st, s) ELSE st

FastBatches(st, s) ==
    IF Len(st.calls[s].todo) = 0
    THEN FastSorted(st, s, SortFast(st.calls[s].acc, <<>>))
    ELSE IF /\ st.db.closed
            /\ \E i \in 1..Len(FirstN(st.calls[s].todo, 4)) :
                   /\ Registered(st, st.calls[s].todo[i])
                   /\ Contains(st, st.calls[s].todo[i])
    THEN Finish(st, s, Returned(TRUE, 0, <<>>))
    ELSE FastStarted(
             StartReads([st EXCEPT !.calls[s].pc = "queryPartitionFast",
                                   !.calls[s].batch = FirstN(st.calls[s].todo, 4),
                                   !.calls[s].todo = AfterN(@, 4)],
                        s, FirstN(st.calls[s].todo, 4)),
             s)

\* request.onsuccess of the getAll of the transaction txq[i]
FastRead(st, i, s) ==
    FastStarted(
        [RemoveTx(st, i) EXCEPT
            !.calls[s].got = MapSet(@, TheStoreOf(st.txq[i]),
                                    GetAll(st.stores[TheStoreOf(st.txq[i])])),
            !.calls[s].pend = @ \ {TheStoreOf(st.txq[i])}],
        s)

FastCached(st, s, found) ==
    IF found.hit
    THEN Finish([st EXCEPT !.queryCache = found.qc], s,
                Returned(TRUE, Len(found.data), found.data))
    ELSE FastBatches([st EXCEPT !.queryCache = found.qc,
                                !.calls[s].todo = st.partitions], s)

getAllDataFast(st, s) ==
    FastCached(Begin(st, s, [IdleFrame EXCEPT !.op = "getAllDataFast"]),
               s, getFullDataCache(st.queryCache, st.now))

(***************************************************************************)
(* CacheManager.clearAllData and clearAllDataCache, called by themselves   *)
(***************************************************************************)
\* the stores both clear: the metadata stores and the stores of the
\* registered partitions that exist
ClearScope(st) ==
    {MetaStore} \cup {st.partitions[i] : i \in
        {j \in 1..Len(st.partitions) : Contains(st, st.partitions[j])}}

Clearing(st, s, op) ==
    IF st.db.closed
    THEN Finish(Begin(Disturb(st), s, [IdleFrame EXCEPT !.op = op]), s, Rejected)
    ELSE StartTx(Begin(Disturb(st), s, [IdleFrame EXCEPT !.op = op, !.pc = op]),
                 s, ClearScope(st), "readwrite")

cmClearAllData(st, s) == Clearing(st, s, "clearAllData")

clearAllDataCache(st, s) == Clearing(st, s, "clearAllDataCache")

\* transaction.oncomplete of the transaction txq[i]: the stores of its scope
\* are empty
Cleared(st, i) ==
    [RemoveTx(st, i) EXCEPT
        !.stores = [p \in DOMAIN @ |->
                       IF p \in st.txq[i].scope THEN EmptyMap ELSE @[p]]]

ClearAllDataComplete(st, i, s) ==
    Finish(Cleared(st, i), s, Returned(TRUE, 0, <<>>))

\* store.delete('allDataMeta') on the metadata store
ClearAllDataCacheComplete(st, i, s) ==
    Finish([Cleared(st, i) EXCEPT !.meta = NoMeta], s, Returned(TRUE, 0, <<>>))

(***************************************************************************)
(* Specification of the reads after bulk writes: queryDateRangeOptimized,  *)
(* getAllDataFast, storeAllData, appendData, clearAllData and              *)
(* clearAllDataCache, each called when the call before it has returned,    *)
(* on the CacheManager whose storeAllData has stored record 1 in 2024_Q1.  *)
(***************************************************************************)
MaxIVCalls == 4

IVLists == {<<CMRec("1", Mar01)>>, <<CMRec("2", May01)>>}

IVWindow == <<MkDate(2024, 0, 1, 0, 0), MkDate(2024, 5, 30, 0, 0)>>

IVInit ==
    /\ NetIdle
    /\ tz \in TimeZones
    /\ config = DefaultConfig
    /\ ceDate = 0 /\ ceType = "day" /\ ceGroup = NoGroup
    /\ DSIdle
    /\ QCIdle
    /\ partitions = <<Q1_2024>>
    /\ stores = [p \in {Q1_2024} |->
                    MapSet(EmptyMap, "1", StampRecord(CMRec("1", Feb01), tz))]
    /\ diskVersion = 2
    /\ db = [version |-> 2, names |-> {Q1_2024}, closed |-> FALSE]
    /\ dbVersion = 2
    /\ openQueue = <<>>
    /\ leaked = 0
    /\ createPartitionLock = FALSE
    /\ partitionCreatedCache = {}
    /\ calls = [s \in 1..MaxMGSlots |-> IdleFrame]
    /\ txq = <<>>
    /\ changed = {}
    /\ meta = MetaRecord(1, 0)
    /\ cmCalls = 0

\* every call made has returned; the write appendData left behind may
\* still be waiting for its migration
CallsReturned ==
    \A s \in Slots : InFlight(calls[s]) => calls[s].op = "writeToPartitionTables"

IVQueryDateRangeOptimized ==
    /\ cmCalls < MaxIVCalls
    /\ CallsReturned
    /\ \E s \in Slots :
        /\ IsFirstFree(s, {})
        /\ CMCall(queryDateRangeOptimized(TheCM, s, IVWindow[1], IVWindow[2],
                                          DefaultOptions, tz))

IVGetAllDataFast ==
    /\ cmCalls < MaxIVCalls
    /\ CallsReturned
    /\ \E s \in Slots :
        /\ IsFirstFree(s, {})
        /\ CMCall(getAllDataFast(TheCM, s))

IVStoreAllData ==
    /\ cmCalls < MaxIVCalls
    /\ Quiescent
    /\ \E s \in Slots, allData \in IVLists :
        /\ IsFirstFree(s, {})
        /\ CMCall(cmStoreAllData(TheCM, s, allData))

IVAppendData ==
    /\ cmCalls < MaxIVCalls
    /\ Quiescent
    /\ \E s \in Slots, b \in Slots, newRecords \in IVLists :
        /\ IsFirstFree(s, {})
        /\ IsFirstFree(b, {s})
        /\ CMCall(cmAppendData(TheCM, s, b, newRecords, tz))

IVClearAllData ==
    /\ cmCalls < MaxIVCalls
    /\ Quiescent
    /\ \E s \in Slots :
        /\ IsFirstFree(s, {})
        /\ CMCall(cmClearAllData(TheCM, s))

IVClearAllDataCache ==
    /\ cmCalls < MaxIVCalls
    /\ Quiescent
    /\ \E s \in Slots :
        /\ IsFirstFree(s, {})
        /\ CMCall(clearAllDataCache(TheCM, s))

IVFastRead ==
    /\ Len(txq) > 0
    /\ \E i \in 1..Len(txq) :
        /\ TxOf(i, {"getAllDataFast"}, "queryPartitionFast")
        /\ CMStep(FastRead(TheCM, i, txq[i].slot))

IVClearAllDataComplete ==
    /\ Len(txq) > 0
    /\ \E i \in 1..Len(txq) :
        /\ TxOf(i, {"clearAllData"}, "clearAllData")
        /\ CMStep(ClearAllDataComplete(TheCM, i, txq[i].slot))

IVClearAllDataCacheComplete ==
    /\ Len(txq) > 0
    /\ \E i \in 1..Len(txq) :
        /\ TxOf(i, {"clearAllDataCache"}, "clearAllDataCache")
        /\ CMStep(ClearAllDataCacheComplete(TheCM, i, txq[i].slot))

IVNext ==
    \/ IVQueryDateRangeOptimized
    \/ IVGetAllDataFast
    \/ IVStoreAllData
    \/ IVAppendData
    \/ IVClearAllData
    \/ IVClearAllDataCache
    \/ IVFastRead
    \/ IVClearAllDataComplete
    \/ IVClearAllDataCacheComplete
    \/ CMQueryRead
    \/ CMWriteComplete
    \/ MGOpenSettle
    \/ MGClearComplete
    \/ MGStoreComplete
    \/ MGStoreYield
    \/ MGMetaComplete

SpecInval == IVInit /\ [][IVNext]_vars

\* what a scan of the registered partitions by getAllDataFast returns
RECURSIVE ScanFast(_, _)
ScanFast(st, partitionIds) ==
    IF Len(partitionIds) = 0 THEN <<>>
    ELSE (IF Head(partitionIds) \in DOMAIN st.stores
          THEN GetAll(st.stores[Head(partitionIds)])
          ELSE <<>>)
         \o ScanFast(st, Tail(partitionIds))

\* C17: when every call has returned and every write has landed, each
\* query result in the QueryCache and the full-dataset slot hold what the
\* partition stores hold, so that no layer holds a result computed before
\* the latest storeAllData, appendData, clearAllData or clearAllDataCache.
C17_NoLayerOutlivesAWrite ==
    Quiescent =>
        /\ \A i \in 1..Len(cache) :
              cache[i].data =
                  PostWriteContents(TheCM, [IdleFrame EXCEPT !.window = IVWindow], tz)
        /\ fullDataCache.set =>
              fullDataCache.data = SortFast(ScanFast(TheCM, partitions), <<>>)

(***************************************************************************)
(* TaskResultAnalyzer and DataStore.getStats (config.js).  The categories  *)
(* of task_result are named in ASCII: "normal", "untracked",               *)
(* "satellite_failure", "device_failure", "operator_failure",              *)
(* "processing_failure" stand for the six literals of isFailure and        *)
(* isSuccessForRate, "unknown" for the default of a missing result.  A     *)
(* success rate is held in thousandths: 66667 stands for 66.667.           *)
(***************************************************************************)
FailureTypes ==
    {"device_failure", "operator_failure", "untracked", "satellite_failure",
     "processing_failure"}

ValidTypes == {"normal", "untracked", "satellite_failure"}

isFailure(result) == result \in FailureTypes

isSuccessForRate(result) == result \in ValidTypes

countFailures(results) ==
    Cardinality({i \in 1..Len(results) : isFailure(results[i])})

\* parseFloat((num / den).toFixed(3)) in thousandths, truncating instead of
\* rounding
ToFixed3_Truncated(num, den) == (1000 * num) \div den

\* parseFloat((num / den).toFixed(3)) in thousandths: the nearest multiple of
\* 0.001, the larger one of two equally near
ToFixed3(num, den) == (2 * 1000 * num + den) \div (2 * den)

calculateSuccessRate(results, planIdCount) ==
    IF planIdCount <= 0 THEN 0
    ELSE ToFixed3(100 * Cardinality({i \in 1..Len(results) :
                                        isSuccessForRate(results[i])}),
                  planIdCount)

\* a getStats bound is [t |-> "null"] or [t |-> "Date", v |-> the Date]
NoBound == [t |-> "null", v |-> 0]
DateBound(d) == [t |-> "Date", v |-> d]

\* the filter of getStats, keeping the buckets that overlap the window
\* instead of those inside it
InWindow_Overlapping(bucket, startDate, endDate) ==
    IF startDate.t # "null" \/ endDate.t # "null"
    THEN /\ ~(startDate.t # "null" /\ bucket.rangeEnd < startDate.v)
         /\ ~(endDate.t # "null" /\ bucket.rangeStart > endDate.v)
    ELSE TRUE

\* the filter of getStats
InWindow(bucket, startDate, endDate) ==
    IF startDate.t # "null" \/ endDate.t # "null"
    THEN /\ ~(startDate.t # "null" /\ bucket.rangeStart < startDate.v)
         /\ ~(endDate.t # "null" /\ bucket.rangeEnd > endDate.v)
    ELSE TRUE

\* buckets.sort((a, b) => a.rangeStart - b.rangeStart) over the buckets of
\* the given keys; the buckets of one cycle type have distinct rangeStart
FirstBucket(bs, keys) ==
    CHOOSE k \in keys : \A j \in keys : bs[k].rangeStart <= bs[j].rangeStart

RECURSIVE SortBuckets(_, _)
SortBuckets(bs, keys) ==
    IF keys = {} THEN <<>>
    ELSE <<bs[FirstBucket(bs, keys)]>>
            \o SortBuckets(bs, keys \ {FirstBucket(bs, keys)})

\* the Set planIds of a bucket: the truthy plan ids of its records
PlanIds(records) ==
    {records[i].plan_id : i \in {j \in 1..Len(records) : records[j].plan_id # Null}}

\* the array results of a bucket
Results(records) ==
    [i \in 1..Len(records) |->
        IF records[i].task_result = Null THEN "unknown" ELSE records[i].task_result]

Stat(bucket) ==
    [key |-> bucket.key,
     count |-> Cardinality(PlanIds(bucket.records)),
     failureCount |-> countFailures(Results(bucket.records)),
     successRate |-> calculateSuccessRate(Results(bucket.records),
                                          Cardinality(PlanIds(bucket.records))),
     rangeStart |-> bucket.rangeStart,
     rangeEnd |-> bucket.rangeEnd]

StatsOf(sorted) == [i \in 1..Len(sorted) |-> Stat(sorted[i])]

getStats(ds, startDate, endDate) ==
    StatsOf(SortBuckets(ds.buckets,
                        {k \in DOMAIN ds.buckets :
                            InWindow(ds.buckets[k], startDate, endDate)}))

(***************************************************************************)
(* Specification of the statistics: Init draws the list loadData is given; *)
(* the DataStore is filled by loadData, addRecordToBucket and updateRecord *)
(* and read by getStats, and getGroup is also called directly.             *)
(***************************************************************************)
\* the number of calls in one run, and the longest list handed to loadData
\* and to calculateSuccessRate
MaxGSCalls == 2
MaxGSLoad == 3

GSRec(id, plan_id, st, res) ==
    [id |-> id, plan_id |-> plan_id, start_time |-> st, task_result |-> res]

GSRecords ==
    { GSRec("1", "P1", Str(T_Jan16_0010), "normal"),
      GSRec("2", "P1", Str(T_Jan16_1200), "device_failure"),
      GSRec("3", "P2", Str(T_Jan15_2330), "untracked"),
      GSRec("2", Null, Str(T_Jan16_1200), Null),
      GSRec("1", "P2", Str(InvalidDate), "normal"),
      GSRec("3", "P2", [t |-> "undefined", v |-> 0], "normal") }

GSLists == ListsUpTo(GSRecords, MaxGSLoad)

\* the bounds of the windows handed to getStats
GSBounds ==
    {NoBound, DateBound(MkDate(2024, 0, 16, 0, 0)),
     DateBound(MkDate(2024, 0, 17, 6, 0))}

\* the Dates handed to getGroup
GSDates == {InvalidDate, T_Jan15_2330, T_Jan16_1200}

GSInit ==
    /\ NetIdle
    /\ tz = 0
    /\ config \in DSConfigs
    /\ ceDate = 0 /\ ceType = "day" /\ ceGroup = NoGroup
    /\ buckets = EmptyMap
    /\ recordToBucket = EmptyMap
    /\ dsType = "day"
    /\ dsInput \in GSLists
    /\ dsLoaded = FALSE
    /\ dsCalls = 0
    /\ dsLast = NoDSCall
    /\ QCIdle
    /\ CMIdle

\* the store becomes ds and the call is recorded in dsLast
GSDone(ds, op, arg, isDelete, ret) ==
    /\ buckets' = ds.buckets
    /\ recordToBucket' = ds.recordToBucket
    /\ dsLast' = [op |-> op, arg |-> arg, isDelete |-> isDelete, ret |-> ret]
    /\ dsCalls' = dsCalls + 1
    /\ UNCHANGED <<netVars, tz, config, ceVars, dsType, dsInput, dsLoaded, qcVars, cmVars>>

GSLoadData ==
    /\ dsCalls < MaxGSCalls
    /\ GSDone(loadData(dsInput, config, dsType, tz), "loadData", dsInput, FALSE, <<>>)

GSAddRecordToBucket ==
    /\ dsCalls < MaxGSCalls
    /\ \E r \in GSRecords :
        GSDone(addRecordToBucket(TheStore, r, config, dsType, tz).ds,
               "addRecordToBucket", r, FALSE,
               addRecordToBucket(TheStore, r, config, dsType, tz).ret)

GSUpdateRecord ==
    /\ dsCalls < MaxGSCalls
    /\ \E r \in GSRecords, isDelete \in BOOLEAN :
        GSDone(updateRecord(TheStore, r, config, dsType, tz, isDelete).ds,
               "updateRecord", r, isDelete,
               updateRecord(TheStore, r, config, dsType, tz, isDelete).ret)

GSGetStats ==
    /\ dsCalls < MaxGSCalls
    /\ \E startDate \in GSBounds, endDate \in GSBounds :
        GSDone(TheStore, "getStats", <<startDate, endDate>>, FALSE,
               getStats(TheStore, startDate, endDate))

GSGetGroup ==
    /\ dsCalls < MaxGSCalls
    /\ \E date \in GSDates :
        GSDone(TheStore, "getGroup", date, FALSE, getGroup(config, date, dsType))

GSNext ==
    \/ GSLoadData
    \/ GSAddRecordToBucket
    \/ GSUpdateRecord
    \/ GSGetStats
    \/ GSGetGroup

SpecStats == GSInit /\ [][GSNext]_vars

\* the keys of the buckets whose whole range lies inside the window
InsideWindow(bs, startDate, endDate) ==
    {k \in DOMAIN bs :
        /\ startDate.t # "null" => bs[k].rangeStart >= startDate.v
        /\ endDate.t # "null" => bs[k].rangeEnd <= endDate.v}

\* C21: getStats returns one stat per bucket whose whole range lies inside
\* the window, in ascending order of rangeStart; count is the number of
\* distinct plan ids of the bucket's records and failureCount the number of
\* its records whose result is a failure category
C21_StatsPerBucketInsideWindow ==
    dsLast.op = "getStats" =>
        /\ Len(dsLast.ret) =
                Cardinality(InsideWindow(buckets, dsLast.arg[1], dsLast.arg[2]))
        /\ {dsLast.ret[i].key : i \in 1..Len(dsLast.ret)} =
                InsideWindow(buckets, dsLast.arg[1], dsLast.arg[2])
        /\ \A i, j \in 1..Len(dsLast.ret) :
                i < j => dsLast.ret[i].rangeStart <= dsLast.ret[j].rangeStart
        /\ \A i \in 1..Len(dsLast.ret) :
            /\ dsLast.ret[i].rangeStart = buckets[dsLast.ret[i].key].rangeStart
            /\ dsLast.ret[i].rangeEnd = buckets[dsLast.ret[i].key].rangeEnd
            /\ dsLast.ret[i].count =
                Cardinality({r.plan_id : r \in HeldRecords(
                    [k \in {dsLast.ret[i].key} |-> buckets[k]])} \ {Null})
            /\ dsLast.ret[i].failureCount =
                Cardinality({n \in 1..Len(buckets[dsLast.ret[i].key].records) :
                    buckets[dsLast.ret[i].key].records[n].task_result \in
                        {"device_failure", "operator_failure", "untracked",
                         "satellite_failure", "processing_failure"}})

\* a getStats call with a start bound that leaves one bucket out and returns
\* the stat of a bucket with two records of one plan id, one of them a failure
C21_Witness ==
    /\ dsLast.op = "getStats"
    /\ dsLast.arg[1].t = "Date"
    /\ Len(dsLast.ret) = 1
    /\ Cardinality(DOMAIN buckets) = 2
    /\ dsLast.ret[1].count = 1
    /\ dsLast.ret[1].failureCount = 1
    /\ Len(buckets[dsLast.ret[1].key].records) = 2

\* a getStats call without bounds that returned two stats
C21_WitnessSorted ==
    /\ dsLast.op = "getStats"
    /\ dsLast.arg = <<NoBound, NoBound>>
    /\ Len(dsLast.ret) = 2
    /\ dsLast.ret[1].rangeStart < dsLast.ret[2].rangeStart

\* a getStats call that returned the stat of a bucket with two plan ids
C21_WitnessTwoPlans ==
    /\ dsLast.op = "getStats"
    /\ Len(dsLast.ret) = 1
    /\ dsLast.ret[1].count = 2

\* the start time is one addRecordToBucket and loadData cannot place
InvalidTime(timeValue) ==
    \/ timeValue.t \notin {"Date", "string", "number"}
    \/ timeValue.t \in {"Date", "string"} /\ timeValue.v = InvalidDate

\* the elements of a sequence
Elements(seq) == {seq[i] : i \in 1..Len(seq)}

\* C24: getGroup on an invalid date raises InvalidDateError and returns no
\* group; addRecordToBucket returns null for a record whose time is invalid
\* or missing and loadData skips it, buckets and reverse map unchanged
C24_InvalidDateIsDistinguished ==
    [][/\ (dsLast'.op = "getGroup" /\ dsCalls' = dsCalls + 1
           /\ dsLast'.arg = InvalidDate) =>
            ~dsLast'.ret.ok /\ dsLast'.ret.error = "InvalidDateError"
       /\ (dsLast'.op = "addRecordToBucket" /\ dsCalls' = dsCalls + 1
           /\ InvalidTime(dsLast'.arg.start_time)) =>
            /\ dsLast'.ret = NoKey
            /\ buckets' = buckets
            /\ recordToBucket' = recordToBucket
       /\ (dsLast'.op = "loadData" /\ dsCalls' = dsCalls + 1) =>
            /\ \A r \in HeldRecords(buckets') : ~InvalidTime(r.start_time)
            /\ \A r \in Elements(dsLast'.arg) :
                ~InvalidTime(r.start_time) => getRecordKey(r) \in DOMAIN recordToBucket'
    ]_vars

(***************************************************************************)
(* Specification of updateRecord's result: the calls of SpecDS, with       *)
(* updateRecord recorded in dsLast.                                        *)
(***************************************************************************)
\* C23: updateRecord returns exactly the buckets it touched, each once:
\* the old bucket when the record was indexed, the new bucket when the
\* record was inserted into a bucket other than the old one
C23_UpdateReturnsTouchedBuckets ==
    [][(dsLast'.op = "updateRecord" /\ dsCalls' = dsCalls + 1) =>
        /\ \A i, j \in 1..Len(dsLast'.ret) : i < j => dsLast'.ret[i] # dsLast'.ret[j]
        /\ Elements(dsLast'.ret) =
            (IF getRecordKey(dsLast'.arg) \in DOMAIN recordToBucket
             THEN {recordToBucket[getRecordKey(dsLast'.arg)]} ELSE {})
            \cup
            (IF ~dsLast'.isDelete /\ ~InvalidTime(dsLast'.arg.start_time)
             THEN {recordToBucket'[getRecordKey(dsLast'.arg)]} ELSE {})
        /\ \A b \in DOMAIN buckets' :
            (b \notin DOMAIN buckets \/ buckets'[b] # buckets[b])
                => b \in Elements(dsLast'.ret)
        /\ (dsLast'.isDelete \/ InvalidTime(dsLast'.arg.start_time))
                => getRecordKey(dsLast'.arg) \notin DOMAIN recordToBucket'
    ]_vars

\* an updateRecord call that moved a record from one bucket to another
C23_Witness ==
    /\ dsLast.op = "updateRecord"
    /\ Len(dsLast.ret) = 2
    /\ recordToBucket[getRecordKey(dsLast.arg)] = dsLast.ret[2]

\* an updateRecord call that put the record back into the bucket it was in
C23_WitnessSameBucket ==
    /\ dsLast.op = "updateRecord"
    /\ ~dsLast.isDelete
    /\ getRecordKey(dsLast.arg) \in DOMAIN recordToBucket
    /\ dsLast.ret = <<recordToBucket[getRecordKey(dsLast.arg)]>>

(***************************************************************************)
(* Specification of calculateSuccessRate as a function of its arguments:   *)
(* Init draws the results and planIdCount, SRCalculateSuccessRate applies  *)
(* the function.                                                           *)
(***************************************************************************)
\* the longest list of results, and the largest planIdCount
MaxResults == 3
MaxPlanIdCount == 4

SRResults == {"normal", "untracked", "device_failure", "unknown"}

SRInit ==
    /\ NetIdle
    /\ tz = 0
    /\ config = DefaultConfig
    /\ ceDate = 0 /\ ceType = "day" /\ ceGroup = NoGroup
    /\ buckets = EmptyMap
    /\ recordToBucket = EmptyMap
    /\ dsType = "day"
    /\ dsInput = <<>>
    /\ dsLoaded = FALSE
    /\ dsCalls = 0
    /\ \E results \in ListsUpTo(SRResults, MaxResults),
          planIdCount \in -1..MaxPlanIdCount :
        dsLast = [op |-> "none", arg |-> <<results, planIdCount>>,
                  isDelete |-> FALSE, ret |-> <<>>]
    /\ QCIdle
    /\ CMIdle

SRCalculateSuccessRate ==
    /\ dsLast.op = "none"
    /\ dsLast' = [dsLast EXCEPT
                    !.op = "calculateSuccessRate",
                    !.ret = calculateSuccessRate(dsLast.arg[1], dsLast.arg[2])]
    /\ dsCalls' = dsCalls + 1
    /\ UNCHANGED <<netVars, tz, config, ceVars, buckets, recordToBucket, dsType, dsInput,
                   dsLoaded, qcVars, cmVars>>

SRNext == SRCalculateSuccessRate

SpecRate == SRInit /\ [][SRNext]_vars

\* C22: calculateSuccessRate returns 0 when planIdCount <= 0 and otherwise
\* 100 * (number of results that count as success) / planIdCount rounded to
\* three decimals: 66.667 for two such results and planIdCount 3
C22_SuccessRateRounded ==
    dsLast.op = "calculateSuccessRate" =>
        IF dsLast.arg[2] <= 0 THEN dsLast.ret = 0
        ELSE /\ 2 * (dsLast.ret * dsLast.arg[2]
                     - 100000 * Cardinality({i \in 1..Len(dsLast.arg[1]) :
                            dsLast.arg[1][i] \in
                                {"normal", "untracked", "satellite_failure"}}))
                    <= dsLast.arg[2]
             /\ 2 * (100000 * Cardinality({i \in 1..Len(dsLast.arg[1]) :
                            dsLast.arg[1][i] \in
                                {"normal", "untracked", "satellite_failure"}})
                     - dsLast.ret * dsLast.arg[2])
                    < dsLast.arg[2]

\* calculateSuccessRate(['normal', 'untracked', 'device_failure'], 3) has
\* returned 66.667
C22_Witness ==
    /\ dsLast.op = "calculateSuccessRate"
    /\ dsLast.arg = <<<<"normal", "untracked", "device_failure">>, 3>>
    /\ dsLast.ret = 66667

\* a call with planIdCount 0 and a result that counts as success returned 0
C22_WitnessZero ==
    /\ dsLast.op = "calculateSuccessRate"
    /\ dsLast.arg = <<<<"normal">>, 0>>
    /\ dsLast.ret = 0

(***************************************************************************)
(* WebSocketSyncManager (websocket-manager.js): the catch-up               *)
(* synchronisation.  The frame catchup holds the position of the running   *)
(* checkAndPerformCatchup / performCatchupSync call: "fetch" while the     *)
(* request to the backend is awaited, "batch" while batchUpdateRecords,    *)
(* running in the CacheManager frame slot, is awaited.  leaveTime is       *)
(* "none" when localStorage holds no leave time, "recent" when the page    *)
(* was left at most 30 s ago and "old" when it was left longer ago.        *)
(***************************************************************************)
\* return { hasNewData, count }
CatchupReturn(frame, hasNewData, count) ==
    [frame EXCEPT !.pc = "done",
                  !.ret = [kind |-> "returned", hasNewData |-> hasNewData,
                           count |-> count]]

\* the catch blocks, rethrowing the error instead of returning
CatchupCaught_Rethrown(frame) ==
    [frame EXCEPT !.pc = "done",
                  !.ret = [kind |-> "rejected", hasNewData |-> FALSE, count |-> 0]]

\* the catch blocks of checkAndPerformCatchup and performCatchupSync
CatchupCaught(frame) == CatchupReturn(frame, FALSE, 0)

\* CacheManager.getLastSyncTime: db.transaction throws on a closed connection
getLastSyncTime(st) ==
    IF st.db.closed THEN [ok |-> FALSE, value |-> 0]
    ELSE [ok |-> TRUE, value |-> st.meta.lastSyncTime]

\* performCatchupSync up to its fetch
performCatchupSync(st, frame) ==
    IF ~getLastSyncTime(st).ok THEN CatchupCaught(frame)
    ELSE [frame EXCEPT !.pc = "fetch"]

\* checkAndPerformCatchup up to the fetch of performCatchupSync
checkAndPerformCatchup(st, frame, leave) ==
    IF leave = "none" THEN CatchupReturn(frame, FALSE, 0)
    ELSE IF leave = "old" THEN performCatchupSync(st, frame)
    ELSE CatchupReturn(frame, FALSE, 0)

\* what the fetch and response.json() can give: no response, a response
\* that is not ok, a body that is not JSON, a result without success or
\* without data.changes, and a result with the list changes
FetchOutcomes == {"unreachable", "not_ok", "bad_json", "no_success", "changes"}

\* performCatchupSync from the settled fetch on, for every outcome but a
\* non-empty list of changes
CatchupFetched(frame, outcome) ==
    IF outcome = "unreachable" THEN CatchupReturn(frame, FALSE, 0)
    ELSE IF outcome = "not_ok" THEN CatchupReturn(frame, FALSE, 0)
    ELSE IF outcome = "bad_json" THEN CatchupCaught(frame)
    ELSE CatchupReturn(frame, FALSE, 0)

\* performCatchupSync hands the changes to batchUpdateRecords, called in slot s
CatchupBatch(frame, s, changes) ==
    [frame EXCEPT !.pc = "batch", !.slot = s, !.changes = changes]

\* performCatchupSync after the awaited batchUpdateRecords settled
CatchupResume(st, frame) ==
    IF st.calls[frame.slot].ret.kind = "rejected" THEN CatchupCaught(frame)
    ELSE CatchupReturn(frame, TRUE, Len(frame.changes))

(***************************************************************************)
(* Specification of the catch-up synchronisation: 2024_Q1 is registered    *)
(* and materialised; one catch-up call runs while appendData writes a      *)
(* record of 2024_Q2, whose migration closes the connection for a while.   *)
(***************************************************************************)
MaxCUCalls == 3

\* the changes the backend returns, and the list appendData is given
CUChanges == {<<>>, <<CMRec("5", Feb01)>>, <<CMRec("5", Feb01), CMRec("6", Mar01)>>}
CUAppendLists == {<<CMRec("6", May01)>>}

CUInit ==
    /\ RCIdle
    /\ isConnected = FALSE
    /\ readyState = "none"
    /\ pendingStatsRequests = {}
    /\ dataRequestPromises = {}
    /\ promises = EmptyMap
    /\ timers = {}
    /\ sent = {}
    /\ inbox = <<>>
    /\ leaveTime \in {"none", "recent", "old"}
    /\ catchup = NoCatchup
    /\ tz \in TimeZones
    /\ config = DefaultConfig
    /\ ceDate = 0 /\ ceType = "day" /\ ceGroup = NoGroup
    /\ DSIdle
    /\ QCIdle
    /\ partitions = <<Q1_2024>>
    /\ stores = [p \in {Q1_2024} |-> EmptyMap]
    /\ diskVersion = 2
    /\ db = [version |-> 2, names |-> {Q1_2024}, closed |-> FALSE]
    /\ dbVersion = 2
    /\ openQueue = <<>>
    /\ leaked = 0
    /\ createPartitionLock = FALSE
    /\ partitionCreatedCache = {}
    /\ calls = [s \in 1..MaxMGSlots |-> IdleFrame]
    /\ txq = <<>>
    /\ changed = {}
    /\ meta = NoMeta
    /\ cmCalls = 0

\* the catch-up frame changes, the CacheManager does not
CUPut(frame) ==
    /\ catchup' = frame
    /\ UNCHANGED <<isConnected, readyState, pendingStatsRequests, dataRequestPromises,
                   promises, timers, sent, inbox, leaveTime, rcVars>>
    /\ UNCHANGED <<tz, config, ceVars, dsVars, qcVars, cmVars>>

CUCheckAndPerformCatchup ==
    /\ catchup.pc = "idle"
    /\ CUPut(checkAndPerformCatchup(
                TheCM, [NoCatchup EXCEPT !.op = "checkAndPerformCatchup"], leaveTime))

CUPerformCatchupSync ==
    /\ catchup.pc = "idle"
    /\ CUPut(performCatchupSync(
                TheCM, [NoCatchup EXCEPT !.op = "performCatchupSync"]))

\* the fetch settles without changes to store
CUFetchSettle ==
    /\ catchup.pc = "fetch"
    /\ \E outcome \in FetchOutcomes \ {"changes"} :
        CUPut(CatchupFetched([catchup EXCEPT !.outcome = outcome], outcome))

\* the fetch settles with an empty list of changes
CUFetchNothing ==
    /\ catchup.pc = "fetch"
    /\ CUPut(CatchupReturn([catchup EXCEPT !.outcome = "changes"], FALSE, 0))

\* the fetch settles with changes: batchUpdateRecords is called
CUFetchChanges ==
    /\ catchup.pc = "fetch"
    /\ \E s \in Slots, changes \in CUChanges \ {<<>>} :
        /\ IsFirstFree(s, {})
        /\ CMSet(cmBatchUpdateRecords(TheCM, s, changes, tz))
        /\ cmCalls' = cmCalls + 1
        /\ catchup' = CatchupBatch([catchup EXCEPT !.outcome = "changes"], s, changes)
        /\ UNCHANGED <<isConnected, readyState, pendingStatsRequests,
                       dataRequestPromises, promises, timers, sent, inbox, leaveTime,
                       rcVars>>

\* the awaited batchUpdateRecords has settled
CUResume ==
    /\ catchup.pc = "batch"
    /\ calls[catchup.slot].pc = "done"
    /\ CUPut(CatchupResume(TheCM, catchup))

\* appendData, in a frame other than the one the catch-up waits for
CUAppendData ==
    /\ cmCalls < MaxCUCalls
    /\ \E s \in Slots, b \in Slots, newRecords \in CUAppendLists :
        /\ IsFirstFree(s, IF catchup.pc = "batch" THEN {catchup.slot} ELSE {})
        /\ IsFirstFree(b, {s} \cup (IF catchup.pc = "batch" THEN {catchup.slot} ELSE {}))
        /\ CMCall(cmAppendData(TheCM, s, b, newRecords, tz))

CUNext ==
    \/ CUCheckAndPerformCatchup
    \/ CUPerformCatchupSync
    \/ CUFetchSettle
    \/ CUFetchNothing
    \/ CUFetchChanges
    \/ CUResume
    \/ CUAppendData
    \/ CMBatchComplete
    \/ CMWriteComplete
    \/ MGOpenSettle

SpecCatchup == CUInit /\ [][CUNext]_vars

\* C27: checkAndPerformCatchup and performCatchupSync never reject; they
\* return {hasNewData: false, count: 0} when there is no leave time, the
\* backend gives no usable result or the store fails, and hasNewData true
\* only after the changes were handed to batchUpdateRecords
C27_CatchupNeverRejects ==
    [][(catchup'.pc = "done" /\ catchup.pc # "done") =>
        /\ catchup'.ret.kind = "returned"
        /\ catchup'.ret.hasNewData =>
            /\ catchup.pc = "batch"
            /\ calls[catchup.slot].op = "batchUpdateRecords"
            /\ catchup'.ret.count = Len(catchup.changes)
        /\ ~catchup'.ret.hasNewData => catchup'.ret.count = 0
        /\ (\/ catchup.op = "checkAndPerformCatchup" /\ leaveTime = "none"
            \/ catchup'.outcome \in {"unreachable", "not_ok", "bad_json", "no_success"}
            \/ catchup.pc = "batch" /\ calls[catchup.slot].ret.kind = "rejected"
            \/ catchup.pc = "batch" /\ db.closed /\ calls[catchup.slot].lost > 0)
                => ~catchup'.ret.hasNewData
    ]_vars

(***************************************************************************)
(* WebSocketSyncManager (websocket-manager.js): statistics queries.        *)
(* readyState is the state of this.ws ("none": no socket was created),     *)
(* pendingStatsRequests the key set of the map of that name, timers the    *)
(* request ids whose setTimeout is armed, sent the request ids written to  *)
(* the open socket, inbox the messages the socket has still to deliver, in *)
(* order.  promises maps a request id to the promise queryStats returned:  *)
(* its state, what settled it, and how often resolve or reject was called. *)
(***************************************************************************)
PendingPromise == [state |-> "pending", by |-> "none", settles |-> 0]

\* new Promise(...) under the generated id
NewPromise(ps, id) == [x \in DOMAIN ps \cup {id} |-> IF x = id THEN PendingPromise ELSE ps[x]]

\* resolve / reject of the promise id: only the first call settles it
Settle(ps, id, state, by) ==
    [ps EXCEPT ![id] = IF ps[id].state = "pending"
                       THEN [state |-> state, by |-> by, settles |-> 1]
                       ELSE [ps[id] EXCEPT !.settles = ps[id].settles + 1]]

\* a stats_query_response message of the backend
StatsResponse(requestId, success) == [requestId |-> requestId, success |-> success]

\* handleStatsQueryResponse keeping the timeout armed
handleStatsQueryResponse_TimerKept(pending, armed, ps, message) ==
    IF message.requestId \in pending
    THEN [pending |-> pending \ {message.requestId},
          timers |-> armed,
          promises |-> IF message.success
                       THEN Settle(ps, message.requestId, "resolved", "response")
                       ELSE Settle(ps, message.requestId, "rejected", "failure")]
    ELSE [pending |-> pending, timers |-> armed, promises |-> ps]

\* handleStatsQueryResponse
handleStatsQueryResponse(pending, armed, ps, message) ==
    IF message.requestId \in pending
    THEN [pending |-> pending \ {message.requestId},
          timers |-> armed \ {message.requestId},
          promises |-> IF message.success
                       THEN Settle(ps, message.requestId, "resolved", "response")
                       ELSE Settle(ps, message.requestId, "rejected", "failure")]
    ELSE [pending |-> pending, timers |-> armed, promises |-> ps]

(***************************************************************************)
(* Specification of the statistics queries: the socket connects, opens,    *)
(* is closed by the heartbeat or the peer and reconnects; queries are made *)
(* while connected; the backend answers a sent request any number of       *)
(* times, with success or failure, or not at all, and may send a response  *)
(* whose id no pending request has.                                        *)
(***************************************************************************)
MaxStatsIds == 2
MaxInFlight == 2

StatsIds == 1..MaxStatsIds
\* 0 is the id of a response that answers no request of this page

WSInit ==
    /\ RCIdle
    /\ isConnected = FALSE
    /\ readyState = "none"
    /\ pendingStatsRequests = {}
    /\ dataRequestPromises = {}
    /\ promises = EmptyMap
    /\ timers = {}
    /\ sent = {}
    /\ inbox = <<>>
    /\ leaveTime \in {"none", "recent"}
    /\ catchup = NoCatchup
    /\ tz = 0
    /\ config = DefaultConfig
    /\ ceDate = 0 /\ ceType = "day" /\ ceGroup = NoGroup
    /\ DSIdle
    /\ QCIdle
    /\ CMIdle

WSKeep ==
    UNCHANGED <<dataRequestPromises, leaveTime, rcVars, tz, config, ceVars, dsVars, qcVars,
                cmVars>>

\* connect(): called when the page loads and by the reconnect timer after
\* handleClose; it returns at once while the socket is connecting or open
WSConnect ==
    /\ readyState \in {"none", "closed"}
    /\ readyState' = "connecting"
    /\ inbox' = <<>>
    /\ UNCHANGED <<isConnected, pendingStatsRequests, promises, timers, sent, catchup>>
    /\ WSKeep

\* handleOpen, with the catch-up check it awaits
WSHandleOpen ==
    /\ readyState = "connecting"
    /\ readyState' = "open"
    /\ isConnected' = TRUE
    /\ catchup' = checkAndPerformCatchup(
                     TheCM, [NoCatchup EXCEPT !.op = "checkAndPerformCatchup"], leaveTime)
    /\ UNCHANGED <<pendingStatsRequests, promises, timers, sent, inbox>>
    /\ WSKeep

\* the heartbeat timer after three missed heartbeats: this.ws.close()
WSHeartbeatClose ==
    /\ readyState = "open"
    /\ readyState' = "closing"
    /\ UNCHANGED <<isConnected, pendingStatsRequests, promises, timers, sent, inbox, catchup>>
    /\ WSKeep

\* handleClose: the socket has closed, what it had not delivered is lost
WSHandleClose ==
    /\ readyState \in {"connecting", "open", "closing"}
    /\ readyState' = "closed"
    /\ isConnected' = FALSE
    /\ inbox' = <<>>
    /\ UNCHANGED <<pendingStatsRequests, promises, timers, sent, catchup>>
    /\ WSKeep

\* queryStats: throws before it does anything when not connected; ws.send
\* throws while the socket is connecting, and discards the message while
\* it is closing or closed
WSQueryStats ==
    /\ isConnected
    /\ \E requestId \in StatsIds \ DOMAIN promises :
        /\ timers' = timers \cup {requestId}
        /\ pendingStatsRequests' = pendingStatsRequests \cup {requestId}
        /\ promises' = IF readyState \in {"none", "connecting"}
                       THEN Settle(NewPromise(promises, requestId), requestId,
                                   "rejected", "send")
                       ELSE NewPromise(promises, requestId)
        /\ sent' = IF readyState = "open" THEN sent \cup {requestId} ELSE sent
    /\ UNCHANGED <<isConnected, readyState, inbox, catchup>>
    /\ WSKeep

\* the backend sends a stats_query_response
WSServerRespond ==
    /\ readyState = "open"
    /\ Len(inbox) < MaxInFlight
    /\ \E requestId \in sent \cup {0}, success \in BOOLEAN :
        inbox' = Append(inbox, StatsResponse(requestId, success))
    /\ UNCHANGED <<isConnected, readyState, pendingStatsRequests, promises, timers, sent, catchup>>
    /\ WSKeep

\* handleMessage for a stats_query_response
WSHandleMessage ==
    /\ readyState \in {"open", "closing"}
    /\ inbox # <<>>
    /\ pendingStatsRequests' =
          handleStatsQueryResponse(pendingStatsRequests, timers, promises, Head(inbox)).pending
    /\ timers' =
          handleStatsQueryResponse(pendingStatsRequests, timers, promises, Head(inbox)).timers
    /\ promises' =
          handleStatsQueryResponse(pendingStatsRequests, timers, promises, Head(inbox)).promises
    /\ inbox' = Tail(inbox)
    /\ UNCHANGED <<isConnected, readyState, sent, catchup>>
    /\ WSKeep

\* the 10 s timer of the request fires
WSTimeout(requestId) ==
    /\ requestId \in timers
    /\ timers' = timers \ {requestId}
    /\ pendingStatsRequests' = pendingStatsRequests \ {requestId}
    /\ promises' = Settle(promises, requestId, "rejected", "timeout")
    /\ UNCHANGED <<isConnected, readyState, sent, inbox, catchup>>
    /\ WSKeep

WSTimeouts == \E requestId \in StatsIds : WSTimeout(requestId)

WSNext ==
    \/ WSConnect
    \/ WSHandleOpen
    \/ WSHeartbeatClose
    \/ WSHandleClose
    \/ WSQueryStats
    \/ WSServerRespond
    \/ WSHandleMessage
    \/ WSTimeouts

\* an armed timer fires after 10 s unless it is cleared
SpecQuery ==
    /\ WSInit
    /\ [][WSNext]_vars
    /\ \A requestId \in StatsIds : WF_vars(WSTimeout(requestId))

\* the promise of a request is settled the right way or still pending
StatsRequestState(requestId) ==
    /\ promises[requestId].settles <= 1
    /\ (requestId \in pendingStatsRequests) = (promises[requestId].state = "pending")
    /\ (requestId \in timers) = (promises[requestId].state = "pending")
    /\ promises[requestId].state = "resolved" => promises[requestId].by = "response"
    /\ promises[requestId].state = "rejected" => promises[requestId].by \in {"failure", "timeout"}

\* a response whose request is not pending is discarded without effect,
\* and a response settles no promise but that of its own request id
StatsResponseStep ==
    (inbox # <<>> /\ inbox' = Tail(inbox) /\ readyState' = readyState) =>
        /\ Head(inbox).requestId \notin pendingStatsRequests =>
              UNCHANGED <<pendingStatsRequests, promises, timers>>
        /\ \A requestId \in DOMAIN promises :
              requestId # Head(inbox).requestId => promises'[requestId] = promises[requestId]
        /\ Head(inbox).requestId \in pendingStatsRequests =>
              /\ promises'[Head(inbox).requestId].state =
                    (IF Head(inbox).success THEN "resolved" ELSE "rejected")
              /\ Head(inbox).requestId \notin pendingStatsRequests'

C25_WitnessDuplicate ==
    /\ inbox # <<>>
    /\ Head(inbox).requestId \in DOMAIN promises
    /\ promises[Head(inbox).requestId].by = "response"

\* a request rejected by a failure response while another is pending
C25_WitnessFailure ==
    \E a, b \in DOMAIN promises :
        promises[a].by = "failure" /\ promises[b].state = "pending"

(***************************************************************************)
(* SharedDataManager (shared-data-manager.js): data requests to the other  *)
(* tabs.  dataRequestPromises is the key set of the map of that name,      *)
(* timers the request ids whose setTimeout is armed, sent the request_data *)
(* messages posted to the BroadcastChannel, inbox the data_response        *)
(* messages the channel has still to deliver to this tab, in order.        *)
(* readyState is "open" when the BroadcastChannel exists and "none" when   *)
(* the constructor could not create it.  promises maps a request id to the *)
(* promise requestData returned, with the value it was resolved with.      *)
(***************************************************************************)
PendingData == [state |-> "pending", by |-> "none", settles |-> 0, value |-> Null]

\* new Promise(...) under the generated id
NewDataPromise(ps, id) ==
    [x \in DOMAIN ps \cup {id} |-> IF x = id THEN PendingData ELSE ps[x]]

\* resolve / reject of the promise id: only the first call settles it
SettleData(ps, id, state, by, value) ==
    [ps EXCEPT ![id] = IF ps[id].state = "pending"
                       THEN [state |-> state, by |-> by, settles |-> 1, value |-> value]
                       ELSE [ps[id] EXCEPT !.settles = ps[id].settles + 1]]

\* a data_response message of another tab
DataResponse(requestId, data) == [requestId |-> requestId, data |-> data]

\* case 'data_response' of handleBroadcastMessage without the delete
handleDataResponse_EntryKept(pending, armed, ps, message) ==
    IF message.requestId \in pending
    THEN [pending |-> pending,
          timers |-> armed \ {message.requestId},
          promises |-> SettleData(ps, message.requestId, "resolved", "response",
                                  message.data)]
    ELSE [pending |-> pending, timers |-> armed, promises |-> ps]

\* case 'data_response' of handleBroadcastMessage
handleDataResponse(pending, armed, ps, message) ==
    IF message.requestId \in pending
    THEN [pending |-> pending \ {message.requestId},
          timers |-> armed \ {message.requestId},
          promises |-> SettleData(ps, message.requestId, "resolved", "response",
                                  message.data)]
    ELSE [pending |-> pending, timers |-> armed, promises |-> ps]

(***************************************************************************)
(* Specification of the data requests: this tab makes requests; the other  *)
(* tabs answer a broadcast request any number of times with their data, or *)
(* not at all, and responses to the requests of other tabs arrive too.     *)
(***************************************************************************)
MaxDataIds == 2
MaxResponses == 2

DataIds == 1..MaxDataIds
\* the data two other tabs hold
PeerData == {"tab_a", "tab_b"}

SDInit ==
    /\ RCIdle
    /\ isConnected = FALSE
    /\ readyState \in {"none", "open"}
    /\ pendingStatsRequests = {}
    /\ dataRequestPromises = {}
    /\ promises = EmptyMap
    /\ timers = {}
    /\ sent = {}
    /\ inbox = <<>>
    /\ leaveTime = "none"
    /\ catchup = NoCatchup
    /\ tz = 0
    /\ config = DefaultConfig
    /\ ceDate = 0 /\ ceType = "day" /\ ceGroup = NoGroup
    /\ DSIdle
    /\ QCIdle
    /\ CMIdle

SDKeep ==
    UNCHANGED <<isConnected, readyState, pendingStatsRequests, leaveTime, catchup, rcVars,
                tz, config, ceVars, dsVars, qcVars, cmVars>>

\* requestData; broadcast posts nothing when there is no channel
SDRequestData ==
    /\ \E requestId \in DataIds \ DOMAIN promises :
        /\ timers' = timers \cup {requestId}
        /\ dataRequestPromises' = dataRequestPromises \cup {requestId}
        /\ promises' = NewDataPromise(promises, requestId)
        /\ sent' = IF readyState = "open" THEN sent \cup {requestId} ELSE sent
    /\ UNCHANGED inbox
    /\ SDKeep

\* another tab answers a request_data it received, or some other tab's request
SDPeerRespond ==
    /\ readyState = "open"
    /\ Len(inbox) < MaxResponses
    /\ \E requestId \in sent \cup {0}, data \in PeerData :
        inbox' = Append(inbox, DataResponse(requestId, data))
    /\ UNCHANGED <<dataRequestPromises, promises, timers, sent>>
    /\ SDKeep

\* handleBroadcastMessage for a data_response
SDHandleBroadcastMessage ==
    /\ inbox # <<>>
    /\ dataRequestPromises' =
          handleDataResponse(dataRequestPromises, timers, promises, Head(inbox)).pending
    /\ timers' =
          handleDataResponse(dataRequestPromises, timers, promises, Head(inbox)).timers
    /\ promises' =
          handleDataResponse(dataRequestPromises, timers, promises, Head(inbox)).promises
    /\ inbox' = Tail(inbox)
    /\ UNCHANGED sent
    /\ SDKeep

\* the timer of the request (3 s by default) fires
SDTimeout(requestId) ==
    /\ requestId \in timers
    /\ timers' = timers \ {requestId}
    /\ dataRequestPromises' = dataRequestPromises \ {requestId}
    /\ promises' = SettleData(promises, requestId, "rejected", "timeout", Null)
    /\ UNCHANGED <<sent, inbox>>
    /\ SDKeep

SDTimeouts == \E requestId \in DataIds : SDTimeout(requestId)

SDNext ==
    \/ SDRequestData
    \/ SDPeerRespond
    \/ SDHandleBroadcastMessage
    \/ SDTimeouts

\* an armed timer fires unless it is cleared
SpecShared ==
    /\ SDInit
    /\ [][SDNext]_vars
    /\ \A requestId \in DataIds : WF_vars(SDTimeout(requestId))

\* the promise of a request is settled the right way or still pending
DataRequestState(requestId) ==
    /\ promises[requestId].settles <= 1
    /\ (requestId \in dataRequestPromises) = (promises[requestId].state = "pending")
    /\ (requestId \in timers) = (promises[requestId].state = "pending")
    /\ promises[requestId].state = "resolved" =>
          promises[requestId].by = "response" /\ promises[requestId].value \in PeerData
    /\ promises[requestId].state = "rejected" => promises[requestId].by = "timeout"

\* the first response of a pending request resolves it with its data; any
\* other response changes no promise
DataResponseStep ==
    (inbox # <<>> /\ inbox' = Tail(inbox)) =>
        /\ Head(inbox).requestId \notin dataRequestPromises =>
              UNCHANGED <<dataRequestPromises, promises, timers>>
        /\ \A requestId \in DOMAIN promises :
              requestId # Head(inbox).requestId => promises'[requestId] = promises[requestId]
        /\ Head(inbox).requestId \in dataRequestPromises =>
              /\ promises'[Head(inbox).requestId].state = "resolved"
              /\ promises'[Head(inbox).requestId].value = Head(inbox).data
              /\ Head(inbox).requestId \notin dataRequestPromises'

\* a settled promise never changes again
DataSettledStays ==
    \A requestId \in DOMAIN promises :
        promises[requestId].state # "pending" => promises'[requestId] = promises[requestId]

\* C26: every requestData promise settles exactly once: it resolves with
\* the first data_response of its id or rejects when the timer fires first;
\* afterwards its entry is gone from dataRequestPromises, and later responses
\* with its id and responses with another id have no effect on it
C26_DataRequestSettledOnce ==
    /\ [](\A requestId \in DOMAIN promises : DataRequestState(requestId))
    /\ [][DataResponseStep /\ DataSettledStays]_vars
    /\ \A requestId \in DataIds :
          (requestId \in DOMAIN promises) ~>
              (requestId \in DOMAIN promises /\ promises[requestId].state # "pending")

\* a second response, with other data, arrives for a resolved request
C26_Witness ==
    /\ inbox # <<>>
    /\ Head(inbox).requestId \in DOMAIN promises
    /\ promises[Head(inbox).requestId].by = "response"
    /\ promises[Head(inbox).requestId].value # Head(inbox).data

\* a response arrives for a request the timer has rejected
C26_WitnessLate ==
    /\ inbox # <<>>
    /\ Head(inbox).requestId \in DOMAIN promises
    /\ promises[Head(inbox).requestId].by = "timeout"

\* a response with another id arrives while a request is pending
C26_WitnessForeign ==
    /\ inbox # <<>>
    /\ Head(inbox).requestId = 0
    /\ dataRequestPromises # {}

(***************************************************************************)
(* Specification of the range query: queryDateRangeOptimized called, one   *)
(* call after the other, with every option on a database whose partitions  *)
(* 2024_Q1 and 2024_Q2 hold two records each.                              *)
(***************************************************************************)
MaxRGCalls == 2
MaxLimit == 2
MaxOffset == 1

Mar20 == MkDate(2024, 2, 20, 0, 0)
Apr02 == MkDate(2024, 3, 2, 0, 0)

RGStore(ids, dates, zone) ==
    [k \in {ids[i] : i \in 1..Len(ids)} |->
        StampRecord(CMRec(k, dates[CHOOSE i \in 1..Len(ids) : ids[i] = k]), zone)]

\* the whole half year, mid-March to early April, and the first quarter
RGWindows ==
    {<<MkDate(2024, 0, 1, 0, 0), MkDate(2024, 5, 30, 0, 0)>>,
     <<MkDate(2024, 2, 15, 0, 0), MkDate(2024, 3, 5, 0, 0)>>,
     <<MkDate(2024, 0, 1, 0, 0), MkDate(2024, 2, 31, 0, 0)>>}

RGOptions ==
    [useCache : {TRUE}, limit : 0..MaxLimit, offset : 0..MaxOffset,
     orderBy : {"asc", "desc"}, maxParallel : {1, 4}]

RGInit ==
    /\ NetIdle
    /\ tz \in TimeZones
    /\ config = DefaultConfig
    /\ ceDate = 0 /\ ceType = "day" /\ ceGroup = NoGroup
    /\ DSIdle
    /\ QCIdle
    /\ partitions = <<Q1_2024, Q2_2024>>
    /\ stores = [p \in {Q1_2024, Q2_2024} |->
                    IF p = Q1_2024
                    THEN RGStore(<<"1", "2">>, <<Feb01, Mar20>>, tz)
                    ELSE RGStore(<<"5", "6">>, <<Apr02, May01>>, tz)]
    /\ diskVersion = 2
    /\ db = [version |-> 2, names |-> {Q1_2024, Q2_2024}, closed |-> FALSE]
    /\ dbVersion = 2
    /\ openQueue = <<>>
    /\ leaked = 0
    /\ createPartitionLock = FALSE
    /\ partitionCreatedCache = {}
    /\ calls = [s \in 1..MaxSlots |-> IdleFrame]
    /\ txq = <<>>
    /\ changed = {}
    /\ meta = MetaRecord(4, 0)
    /\ cmCalls = 0

RGQueryDateRangeOptimized ==
    /\ cmCalls < MaxRGCalls
    /\ Quiescent
    /\ \E s \in Slots, w \in RGWindows, options \in RGOptions :
        /\ IsFirstFree(s, {})
        /\ CMCall(queryDateRangeOptimized(TheCM, s, w[1], w[2], options, tz))

RGNext ==
    \/ RGQueryDateRangeOptimized
    \/ CMQueryRead

SpecRange == RGInit /\ [][RGNext]_vars

\* the first and the last minute of the quarter of a partition
QuarterStart(p) == MkDate(p[1], 3 * (p[2] - 1), 1, 0, 0)
QuarterEnd(p) == MkDate(p[1], 3 * p[2], 1, 0, 0) - 1

\* the registered partitions whose quarter overlaps [startDate, endDate]
Overlapping(registered, startDate, endDate) ==
    {registered[i] : i \in {j \in 1..Len(registered) :
        /\ QuarterStart(registered[j]) <= endDate
        /\ QuarterEnd(registered[j]) >= startDate}}

PruningComplete(frame) ==
    Elements(getPartitionsInRange(partitions, frame.window[1], frame.window[2]))
        = Overlapping(partitions, frame.window[1], frame.window[2])

\* every stored record whose timestamp lies in the window of the call
StoredInRange(frame) ==
    UNION {{stores[p][k] : k \in {x \in DOMAIN stores[p] :
                /\ StartOf(frame, tz) <= stores[p][x].timestamp
                /\ stores[p][x].timestamp <= EndOf(frame, tz)}} : p \in DOMAIN stores}

QueryDone(s) ==
    /\ calls[s].op = "queryDateRangeOptimized"
    /\ calls[s].pc = "done"
    /\ calls[s].ret.kind = "returned"

\* C28: getPartitionsInRange returns exactly the registered partitions
\* whose quarter overlaps the window, whatever the start day, so
\* queryDateRangeOptimized without a limit returns every stored record
\* whose timestamp lies in the window
C28_PruningKeepsEveryOverlappingQuarter ==
    \A s \in Slots : QueryDone(s) =>
        /\ PruningComplete(calls[s])
        /\ calls[s].opts.limit = 0 => Elements(calls[s].ret.data) = StoredInRange(calls[s])

\* C29: for any limit, offset, orderBy and maxParallel the query returns
\* the slice [offset, offset+limit) of the complete in-range result sorted
\* in the requested direction, early exit or not (stated for the windows
\* whose overlapping partitions are all scanned)
C29_PageIsSliceOfCompleteResult ==
    \A s \in Slots : (QueryDone(s) /\ PruningComplete(calls[s])) =>
        calls[s].ret.data =
            applyPagination(SortByTime(InIndexOrder(StoredInRange(calls[s])), <<>>,
                                       calls[s].opts.orderBy),
                            calls[s].opts.limit, calls[s].opts.offset)

(***************************************************************************)
(* Specification of a failing schema migration: 2024_Q1 is registered and  *)
(* materialised; the caller in slot 1 calls ensurePartition('2024_Q2'),     *)
(* again after a failure; the other callers write records of 2024_Q2 with  *)
(* appendData and updateRecord.  An open request may fail: another tab has *)
(* raised the version of the database, or the upgrade is aborted.          *)
(***************************************************************************)
MaxFLCalls == 4

FLRecords == {CMRec("5", May01), CMRec("6", May01)}

FLInit ==
    /\ NetIdle
    /\ tz \in TimeZones
    /\ config = DefaultConfig
    /\ ceDate = 0 /\ ceType = "day" /\ ceGroup = NoGroup
    /\ DSIdle
    /\ QCIdle
    /\ partitions = <<Q1_2024>>
    /\ stores = [p \in {Q1_2024} |-> EmptyMap]
    /\ diskVersion = 2
    /\ db = [version |-> 2, names |-> {Q1_2024}, closed |-> FALSE]
    /\ dbVersion = 2
    /\ openQueue = <<>>
    /\ leaked = 0
    /\ createPartitionLock = FALSE
    /\ partitionCreatedCache = {}
    /\ calls = [s \in 1..MaxMGSlots |-> IdleFrame]
    /\ txq = <<>>
    /\ changed = {}
    /\ meta = NoMeta
    /\ cmCalls = 0

FLEnsurePartition ==
    /\ cmCalls < MaxFLCalls
    /\ ~InFlight(calls[1])
    /\ CMCall(ensurePartition(TheCM, 1, Q2_2024))

FLAppendData ==
    /\ cmCalls < MaxFLCalls
    /\ \E s \in Slots, b \in Slots, record \in FLRecords :
        /\ IsFirstFree(s, {1})
        /\ IsFirstFree(b, {1, s})
        /\ CMCall(cmAppendData(TheCM, s, b, <<record>>, tz))

FLUpdateRecord ==
    /\ cmCalls < MaxFLCalls
    /\ \E s \in Slots, record \in FLRecords :
        /\ IsFirstFree(s, {1})
        /\ CMCall(cmUpdateRecord(TheCM, s, record, tz))

\* request.onerror of the open request at the head of the queue
FLOpenFail ==
    /\ Len(openQueue) > 0
    /\ CMStep(OpenError(TheCM, Head(openQueue).slot))

FLNext ==
    \/ FLEnsurePartition
    \/ FLAppendData
    \/ FLUpdateRecord
    \/ FLOpenFail
    \/ MGOpenSettle
    \/ CMUpdatePut
    \/ CMWriteComplete

SpecFail == FLInit /\ [][FLNext]_vars

\* the open request at the head of the queue fails in this step: it leaves
\* the queue and this.db stays the closed connection
MigrationFails ==
    /\ Len(openQueue) > 0
    /\ openQueue' = Tail(openQueue)
    /\ db'.closed

\* the last ensurePartition('2024_Q2') failed and 2024_Q2 has no store
MigrationFailed ==
    /\ calls[1].op = "ensurePartition"
    /\ calls[1].pc = "done"
    /\ calls[1].ret.kind = "rejected"
    /\ Q2_2024 \notin DOMAIN stores

\* the call in slot s reports success to its caller
ReportsSuccess(frame) ==
    /\ frame.ret.kind = "returned"
    /\ IF frame.op = "appendData" THEN frame.ret.n > 0 ELSE frame.ret.ok

\* C30: a failed migration rejects the ensurePartition that asked for it,
\* the partition stays without store and out of partitionCreatedCache, and
\* every write to the partition made after the failure fails visibly
\* (returns false or rejects) until a retried migration succeeds
C30_FailedMigrationIsVisible ==
    [][/\ (MigrationFails /\ Head(openQueue).slot = 1) =>
            /\ calls'[1].ret.kind = "rejected"
            /\ Q2_2024 \notin partitionCreatedCache'
            /\ Q2_2024 \notin DOMAIN stores'
       /\ MigrationFailed =>
            \A s \in Slots \ {1} :
                (/\ ~InFlight(calls[s])
                 /\ calls'[s] # calls[s]
                 /\ calls'[s].pc = "done"
                 /\ calls'[s].op \in {"appendData", "updateRecord"})
                    => ~ReportsSuccess(calls'[s])
      ]_vars

\* the open request at the head of the queue settles in this step
OpenSettles == Len(openQueue) > 0 /\ openQueue' = Tail(openQueue)

\* C31: schema versions only move forward: every migration started by
\* ensurePartition or ensurePartitionsExist opens the database at a version
\* strictly greater than the version the database has when the request is
\* served, so that its upgrade runs and the stores it asked for exist
\* afterwards, under any interleaving of migration requests
C31_MigrationsRaiseTheVersion ==
    [][OpenSettles =>
          /\ Head(openQueue).version > diskVersion
          /\ \A i \in 1..Len(Head(openQueue).create) :
                 Head(openQueue).create[i] \in DOMAIN stores'
      ]_vars

\* the call of storeAllData in slot s goes on in this step
StoreAllDataStep(s) ==
    /\ calls[s].op = "storeAllData"
    /\ calls'[s].op = "storeAllData"
    /\ calls[s].pc = "clearAllData"
    /\ calls'[s].pc # "clearAllData"

\* the partitions the data of the call needs that this.db does not list
NeededMissing(s) ==
    {calls'[s].todo[i].id : i \in {j \in 1..Len(calls'[s].todo) :
                                      calls'[s].todo[j].id \notin db.names}}

C32_WitnessNone ==
    \E s \in Slots :
        /\ calls[s].op = "storeAllData"
        /\ calls[s].pc = "done"
        /\ calls[s].ret.kind = "returned"
        /\ calls[s].ret.n > 0
        /\ calls[s].opens = 0

(***************************************************************************)
(* Specification of overlapping appendData calls: each call appends one    *)
(* record that no other call appends, of the first or the second quarter   *)
(* of 2024, on a database where 2024_Q1 is registered and created and      *)
(* 2024_Q2 is neither.  Every transaction and every migration succeeds.    *)
(***************************************************************************)
MaxAPCalls == 3

\* the record of the n-th call of appendData
APRecord(n, start_time) == CMRec(Keys[n], start_time)

APAppendData ==
    /\ cmCalls < MaxAPCalls
    /\ \E s \in Slots, b \in Slots, start_time \in {Feb01, May01} :
        /\ IsFirstFree(s, {})
        /\ IsFirstFree(b, {s})
        /\ CMCall(cmAppendData(TheCM, s, b, <<APRecord(cmCalls + 1, start_time)>>, tz))

APNext ==
    \/ APAppendData
    \/ CMWriteComplete
    \/ MGOpenSettle

SpecAppend == WRInit /\ [][APNext]_vars

\* the record of the n-th call is in the store of the partition of its
\* start time
Appended(n) ==
    \E p \in DOMAIN stores :
        /\ Keys[n] \in DOMAIN stores[p]
        /\ PartitionOfTimestamp(parseTimeToTimestamp(stores[p][Keys[n]].start_time, tz), tz) = p

\* C33: once every appendData call, every migration and every transaction
\* they began has ended, the record passed to each call is in the store of
\* its partition, also when calls for a partition whose store is still
\* being created overlapped.
C33_AppendedRecordsReachTheirStore ==
    (Quiescent /\ Len(openQueue) = 0 /\ Len(txq) = 0)
    => \A n \in 1..cmCalls : Appended(n)

(***************************************************************************)
(* Specification of reads that overlap record writes: range queries and    *)
(* getAllDataFast called at any time, also while an updateRecord,          *)
(* batchUpdateRecords or deleteRecord is in flight, on a database with     *)
(* 2024_Q1 and 2024_Q2 registered and created, record 5 stored in 2024_Q1  *)
(* and record 6 in 2024_Q2.  Every write keeps its record in the partition *)
(* that holds it or adds a record to the partition of its start time.      *)
(***************************************************************************)
MaxSECalls == 3

\* the first half of 2024: the window of both partitions
SEWindow == <<MkDate(2024, 0, 1, 0, 0), MkDate(2024, 5, 30, 0, 0)>>

SERecords == {CMRec("5", Mar01), CMRec("1", Feb01), CMRec("2", May01)}

SEInit ==
    /\ NetIdle
    /\ tz \in TimeZones
    /\ config = DefaultConfig
    /\ ceDate = 0 /\ ceType = "day" /\ ceGroup = NoGroup
    /\ DSIdle
    /\ QCIdle
    /\ partitions = <<Q1_2024, Q2_2024>>
    /\ stores = [p \in {Q1_2024, Q2_2024} |->
                    IF p = Q1_2024
                    THEN MapSet(EmptyMap, "5", StampRecord(CMRec("5", Feb01), tz))
                    ELSE MapSet(EmptyMap, "6", StampRecord(CMRec("6", May01), tz))]
    /\ diskVersion = 2
    /\ db = [version |-> 2, names |-> {Q1_2024, Q2_2024}, closed |-> FALSE]
    /\ dbVersion = 2
    /\ openQueue = <<>>
    /\ leaked = 0
    /\ createPartitionLock = FALSE
    /\ partitionCreatedCache = {}
    /\ calls = [s \in 1..MaxSlots |-> IdleFrame]
    /\ txq = <<>>
    /\ changed = {}
    /\ meta = MetaRecord(2, 0)
    /\ cmCalls = 0

SEUpdateRecord ==
    /\ cmCalls < MaxSECalls
    /\ \E s \in Slots, record \in SERecords :
        /\ IsFirstFree(s, {})
        /\ CMCall(cmUpdateRecord(TheCM, s, StampRecord(record, tz), tz))

SEBatchUpdateRecords ==
    /\ cmCalls < MaxSECalls
    /\ \E s \in Slots, record \in SERecords :
        /\ IsFirstFree(s, {})
        /\ CMCall(cmBatchUpdateRecords(TheCM, s, <<StampRecord(record, tz)>>, tz))

SEDeleteRecord ==
    /\ cmCalls < MaxSECalls
    /\ \E s \in Slots, recordId \in {"5", "6"} :
        /\ IsFirstFree(s, {})
        /\ CMCall(cmDeleteRecord(TheCM, s, recordId, InvalidDate, tz))

SEQueryDateRangeOptimized ==
    /\ cmCalls < MaxSECalls
    /\ \E s \in Slots :
        /\ IsFirstFree(s, {})
        /\ CMCall(queryDateRangeOptimized(TheCM, s, SEWindow[1], SEWindow[2],
                                          DefaultOptions, tz))

SEGetAllDataFast ==
    /\ cmCalls < MaxSECalls
    /\ \E s \in Slots :
        /\ IsFirstFree(s, {})
        /\ CMCall(getAllDataFast(TheCM, s))

SENext ==
    \/ SEUpdateRecord
    \/ SEBatchUpdateRecords
    \/ SEDeleteRecord
    \/ SEQueryDateRangeOptimized
    \/ SEGetAllDataFast
    \/ CMUpdatePut
    \/ CMBatchComplete
    \/ CMDeleteStep
    \/ CMQueryRead
    \/ IVFastRead

SpecStale == SEInit /\ [][SENext]_vars

\* C34: once the reads and the record writes that overlapped have all
\* returned, no query result in the QueryCache and no full-dataset slot
\* holds what the partitions held before a write: each holds what the
\* partition stores hold now.
C34_NoStaleResultAfterOverlap ==
    (Quiescent /\ Len(txq) = 0) =>
        /\ \A i \in 1..Len(cache) :
              cache[i].data =
                  PostWriteContents(TheCM, [IdleFrame EXCEPT !.window = SEWindow], tz)
        /\ fullDataCache.set =>
              fullDataCache.data = SortFast(ScanFast(TheCM, partitions), <<>>)

\* C35: after any sequence of set, get, evictOldest and clear,
\* currentCacheSize is the sum of the size fields of the entries in the
\* cache map.
C35_SizeIsSumOfEntries == currentCacheSize = ResidentSize(cache)

(***************************************************************************)
(* Specification of the three read paths of queryDateRangeOptimized: the   *)
(* hot-window slot, the query-result cache and the partition scan.         *)
(* preloadHotData and range queries are called one after the other on a    *)
(* database whose stores do not change: 2024_Q1 holds record 5 of          *)
(* 2024-02-01 and record 6 of 2024-02-03, 2024_Q2 holds record 1 of        *)
(* 2024-05-01; both partitions are registered.                             *)
(***************************************************************************)
MaxHWCalls == 4

Feb03 == MkDate(2024, 1, 3, 0, 0)

\* the Date at which preloadHotData is called
HWToday == MkDate(2024, 1, 5, 12, 0)

\* a window within the seven days before HWToday, and one beyond them
HWWindows ==
    {<<MkDate(2024, 1, 1, 0, 0), MkDate(2024, 1, 4, 0, 0)>>,
     <<MkDate(2024, 0, 1, 0, 0), MkDate(2024, 5, 30, 0, 0)>>}

HWOptions ==
    {[DefaultOptions EXCEPT !.orderBy = o, !.limit = l] :
        o \in {"asc", "desc"}, l \in {0, 1}}

HWInit ==
    /\ NetIdle
    /\ tz \in TimeZones
    /\ config = DefaultConfig
    /\ ceDate = 0 /\ ceType = "day" /\ ceGroup = NoGroup
    /\ DSIdle
    /\ QCIdle
    /\ partitions = <<Q1_2024, Q2_2024>>
    /\ stores = [p \in {Q1_2024, Q2_2024} |->
                    IF p = Q1_2024
                    THEN MapSet(MapSet(EmptyMap, "5", StampRecord(CMRec("5", Feb01), tz)),
                                "6", StampRecord(CMRec("6", Feb03), tz))
                    ELSE MapSet(EmptyMap, "1", StampRecord(CMRec("1", May01), tz))]
    /\ diskVersion = 2
    /\ db = [version |-> 2, names |-> {Q1_2024, Q2_2024}, closed |-> FALSE]
    /\ dbVersion = 2
    /\ openQueue = <<>>
    /\ leaked = 0
    /\ createPartitionLock = FALSE
    /\ partitionCreatedCache = {}
    /\ calls = [s \in 1..MaxSlots |-> IdleFrame]
    /\ txq = <<>>
    /\ changed = {}
    /\ meta = MetaRecord(3, 0)
    /\ cmCalls = 0

HWPreloadHotData ==
    /\ cmCalls < MaxHWCalls
    /\ Quiescent
    /\ \E s \in Slots :
        /\ IsFirstFree(s, {})
        /\ CMCall(preloadHotData(TheCM, s, HWToday, tz))

HWQueryDateRangeOptimized ==
    /\ cmCalls < MaxHWCalls
    /\ Quiescent
    /\ \E s \in Slots, w \in HWWindows, options \in HWOptions :
        /\ IsFirstFree(s, {})
        /\ CMCall(queryDateRangeOptimized(TheCM, s, w[1], w[2], options, tz))

\* the cursor of a partition read of preloadHotData has run to its end
HWPreloadRead ==
    /\ Len(txq) > 0
    /\ \E i \in 1..Len(txq) :
        /\ TxOf(i, {"preloadHotData"}, "queryPartitionOptimized")
        /\ CMStep(QueryRead(TheCM, i, txq[i].slot, tz))

HWNext ==
    \/ HWPreloadHotData
    \/ HWQueryDateRangeOptimized
    \/ HWPreloadRead
    \/ CMQueryRead

SpecHot == HWInit /\ [][HWNext]_vars

\* C36: with the stores unchanged, a range query returns what the scan of
\* the partitions returns for its arguments, in that order, whether it was
\* answered from the hot-window slot, the query-result cache or the scan.
C36_SameAnswerOnEveryPath ==
    \A s \in Slots : QueryDone(s) => calls[s].ret.data = calls[s].expect

(***************************************************************************)
(* Specification of getAllDataFast on an instance that may have written    *)
(* nothing yet: getAllDataFast and appendData are called one after the     *)
(* other on a database with 2024_Q1 and 2024_Q2 created, record 5 stored   *)
(* in 2024_Q1 and record 6 in 2024_Q2, where this.partitions holds both    *)
(* partitions, the first only, or, on a new instance, none.                *)
(***************************************************************************)
MaxFACalls == 3

FALists == {<<CMRec("1", Mar01)>>, <<CMRec("2", May01)>>}

FAInit ==
    /\ NetIdle
    /\ tz \in TimeZones
    /\ config = DefaultConfig
    /\ ceDate = 0 /\ ceType = "day" /\ ceGroup = NoGroup
    /\ DSIdle
    /\ QCIdle
    /\ partitions \in {<<Q1_2024, Q2_2024>>, <<Q1_2024>>, <<>>}
    /\ stores = [p \in {Q1_2024, Q2_2024} |->
                    IF p = Q1_2024
                    THEN MapSet(EmptyMap, "5", StampRecord(CMRec("5", Feb01), tz))
                    ELSE MapSet(EmptyMap, "6", StampRecord(CMRec("6", May01), tz))]
    /\ diskVersion = 2
    /\ db = [version |-> 2, names |-> {Q1_2024, Q2_2024}, closed |-> FALSE]
    /\ dbVersion = 2
    /\ openQueue = <<>>
    /\ leaked = 0
    /\ createPartitionLock = FALSE
    /\ partitionCreatedCache = {}
    /\ calls = [s \in 1..MaxMGSlots |-> IdleFrame]
    /\ txq = <<>>
    /\ changed = {}
    /\ meta = MetaRecord(2, 0)
    /\ cmCalls = 0

FAGetAllDataFast ==
    /\ cmCalls < MaxFACalls
    /\ Quiescent
    /\ \E s \in Slots :
        /\ IsFirstFree(s, {})
        /\ CMCall(getAllDataFast(TheCM, s))

FAAppendData ==
    /\ cmCalls < MaxFACalls
    /\ Quiescent
    /\ \E s \in Slots, b \in Slots, newRecords \in FALists :
        /\ IsFirstFree(s, {})
        /\ IsFirstFree(b, {s})
        /\ CMCall(cmAppendData(TheCM, s, b, newRecords, tz))

FANext ==
    \/ FAGetAllDataFast
    \/ FAAppendData
    \/ IVFastRead
    \/ CMWriteComplete

SpecFast == FAInit /\ [][FANext]_vars

\* the records held in the partition stores, each with its store
StoredEverywhere == {<<p, id>> \in (DOMAIN stores) \X {Keys[i] : i \in 1..Len(Keys)} :
                        id \in DOMAIN stores[p]}

\* the call in slot s, a getAllDataFast, returns in this step
FastReturns(s) ==
    /\ calls'[s].op = "getAllDataFast"
    /\ calls'[s].pc = "done"
    /\ calls[s] # calls'[s]

\* C37: what getAllDataFast returns is every record held in a partition
\* store of the database, registered in memory or not, each once, in
\* ascending order of timestamp.
C37_FastReadSeesEveryStore ==
    [][\A s \in Slots : FastReturns(s) =>
          /\ Elements(calls'[s].ret.data) = {stores[pi[1]][pi[2]] : pi \in StoredEverywhere}
          /\ Len(calls'[s].ret.data) = Cardinality(StoredEverywhere)
          /\ \A i \in 1..Len(calls'[s].ret.data) : \A j \in i..Len(calls'[s].ret.data) :
                 calls'[s].ret.data[i].timestamp <= calls'[s].ret.data[j].timestamp
      ]_vars

(***************************************************************************)
(* Specification of createPartitionLock: ensurePartition of 2024_Q2 and    *)
(* 2024_Q3 and ensurePartitionsExist called at any time on a database      *)
(* where 2024_Q1 is registered and created.  An open request succeeds or   *)
(* fails.  The 50 ms timer of a waiting ensurePartition fires, and an open *)
(* request that can be served is served.                                   *)
(***************************************************************************)
MaxLKCalls == 3

Q3_2024 == <<2024, 3>>

LKEnsurePartition ==
    /\ cmCalls < MaxLKCalls
    /\ \E s \in Slots, partitionId \in {Q2_2024, Q3_2024} :
        /\ IsFirstFree(s, {})
        /\ CMCall(ensurePartition(TheCM, s, partitionId))

LKEnsurePartitionsExist ==
    /\ cmCalls < MaxLKCalls
    /\ \E s \in Slots :
        /\ IsFirstFree(s, {})
        /\ CMCall(EnsureAwaited(
                      ensurePartitionsExist(
                          Begin(TheCM, s, [IdleFrame EXCEPT !.op = "ensurePartitionsExist"]),
                          s),
                      s))

\* the open request at the head of the queue settles, one way or the other
LKOpenSettles == MGOpenSettle \/ FLOpenFail

LKNext ==
    \/ LKEnsurePartition
    \/ LKEnsurePartitionsExist
    \/ MGOpenSettle
    \/ FLOpenFail
    \/ MGEnsureWake

SpecLock ==
    /\ FLInit
    /\ [][LKNext]_vars
    /\ WF_vars(LKOpenSettles)
    /\ WF_vars(MGEnsureWake)

\* the ensurePartition in slot s holds the lock: it awaits its open request
Migrating(s) == calls[s].op = "ensurePartition" /\ calls[s].pc = "open"

\* the ensurePartition in slot s has not returned
EnsurePending(s) == calls[s].op = "ensurePartition" /\ InFlight(calls[s])

\* C38: createPartitionLock is true only while an ensurePartition awaits
\* the open request of its migration, and is false again when the request
\* has succeeded or failed; and if every open request settles, every
\* ensurePartition that waits, for the lock or for its request, returns.
C38_LockIsReleased ==
    /\ [](createPartitionLock <=> \E s \in 1..MaxMGSlots : Migrating(s))
    /\ []<>(Len(openQueue) = 0)
          => \A s \in 1..MaxMGSlots : EnsurePending(s) ~> ~EnsurePending(s)

\* one ensurePartition has failed, another has migrated and returned, and
\* the lock is free
C38_Witness ==
    /\ ~createPartitionLock
    /\ \E s \in Slots, r \in Slots :
        /\ calls[s].op = "ensurePartition" /\ calls[s].pc = "done"
        /\ calls[s].ret.kind = "rejected"
        /\ calls[r].op = "ensurePartition" /\ calls[r].pc = "done"
        /\ calls[r].ret.kind = "returned" /\ calls[r].opens = 1

\* an ensurePartition waits for the lock another holds
C38_WitnessWaiting ==
    \E s \in Slots, r \in Slots :
        /\ Migrating(s)
        /\ calls[r].op = "ensurePartition" /\ calls[r].pc = "setTimeout"

(***************************************************************************)
(* WebSocketSyncManager: connect, handleOpen, handleClose,                 *)
(* scheduleReconnect and disconnect, on the fields of the manager that     *)
(* they read and write.  readyState "none" stands for this.ws = null.      *)
(***************************************************************************)
TheWS ==
    [readyState |-> readyState, isConnected |-> isConnected,
     isReconnecting |-> isReconnecting, reconnectTimer |-> reconnectTimer]

scheduleReconnect(ws) ==
    IF ws.isReconnecting THEN ws
    ELSE [ws EXCEPT !.isReconnecting = TRUE, !.reconnectTimer = TRUE]

\* connect() with a configured URL; throws: new WebSocket(url) throws, and
\* this.ws stays what it was
connect(ws, throws) ==
    IF ws.readyState \in {"connecting", "open"} THEN ws
    ELSE IF throws THEN scheduleReconnect(ws)
    ELSE [ws EXCEPT !.readyState = "connecting"]

\* the callback of the timer of scheduleReconnect
ReconnectTimerFired(ws, throws) == connect([ws EXCEPT !.reconnectTimer = FALSE], throws)

\* handleOpen, as far as its await
handleOpen(ws) ==
    [ws EXCEPT !.readyState = "open", !.isConnected = TRUE, !.isReconnecting = FALSE]

\* handleClose(event), with event.wasClean = clean
handleClose(ws, clean) ==
    IF ~clean /\ ~ws.isReconnecting
    THEN scheduleReconnect([ws EXCEPT !.readyState = "closed", !.isConnected = FALSE])
    ELSE [ws EXCEPT !.readyState = "closed", !.isConnected = FALSE]

disconnect(ws) ==
    [ws EXCEPT !.isReconnecting = FALSE, !.reconnectTimer = FALSE,
               !.readyState = "none", !.isConnected = FALSE]

(***************************************************************************)
(* Specification of the reconnection of WebSocketSyncManager: the page     *)
(* calls connect() and, at any time, disconnect(); the socket opens or     *)
(* closes, cleanly or not; new WebSocket(url) may throw; the reconnect     *)
(* timer fires; statistics queries are made and answered meanwhile.        *)
(***************************************************************************)
RCPut(ws) ==
    /\ readyState' = ws.readyState
    /\ isConnected' = ws.isConnected
    /\ isReconnecting' = ws.isReconnecting
    /\ reconnectTimer' = ws.reconnectTimer

\* what is lost with the socket; the requests and their timers stay
RCKeep ==
    /\ inbox' = <<>>
    /\ UNCHANGED <<pendingStatsRequests, promises, timers, sent, dataRequestPromises,
                   leaveTime, tz, config, ceVars, dsVars, qcVars, cmVars>>

\* the page calls connect()
RCConnect ==
    /\ readyState = "none"
    /\ \E throws \in BOOLEAN : RCPut(connect(TheWS, throws))
    /\ UNCHANGED <<wasClean, catchup>>
    /\ RCKeep

RCReconnectTimer ==
    /\ reconnectTimer
    /\ \E throws \in BOOLEAN : RCPut(ReconnectTimerFired(TheWS, throws))
    /\ UNCHANGED <<wasClean, catchup>>
    /\ RCKeep

\* handleOpen, with the catch-up check it awaits
RCHandleOpen ==
    /\ readyState = "connecting"
    /\ RCPut(handleOpen(TheWS))
    /\ catchup' = checkAndPerformCatchup(
                     TheCM, [NoCatchup EXCEPT !.op = "checkAndPerformCatchup"], leaveTime)
    /\ UNCHANGED wasClean
    /\ RCKeep

\* the close event of the socket: a socket that never opened does not
\* close cleanly
RCHandleClose ==
    /\ readyState \in {"connecting", "open", "closing"}
    /\ \E clean \in BOOLEAN :
        /\ readyState = "connecting" => ~clean
        /\ RCPut(handleClose(TheWS, clean))
        /\ wasClean' = clean
    /\ UNCHANGED catchup
    /\ RCKeep

RCDisconnect ==
    /\ readyState # "none" \/ reconnectTimer \/ isReconnecting
    /\ RCPut(disconnect(TheWS))
    /\ UNCHANGED <<wasClean, catchup>>
    /\ RCKeep

RCNext ==
    \/ RCConnect
    \/ RCReconnectTimer
    \/ RCHandleOpen
    \/ RCHandleClose
    \/ RCDisconnect
    \/ WSHeartbeatClose
    \/ WSQueryStats
    \/ WSServerRespond
    \/ WSHandleMessage
    \/ WSTimeouts

SpecReconnect == WSInit /\ [][RCNext]_vars

\* C39: while the socket is closed after a close that was not clean and
\* disconnect() has not been called since, a reconnect attempt is
\* scheduled, also when the attempt before it failed.
C39_ReconnectKeepsTrying ==
    (readyState = "closed" /\ ~wasClean) => reconnectTimer
====
